---- MODULE Spec2Model ----
(***************************************************************************)
(* The asynchronous document pipeline of the recruitment backend: the      *)
(* upload handlers, the CV, JD and Profiler worker pools, and the run      *)
(* records they keep in the store.                                         *)
(*                                                                         *)
(* The CV pipeline (cv_profiles container, cv_queue, profile_queue) and    *)
(* the JD pipeline (role_profiles and role_listings containers, jd_queue)  *)
(* share no state, so a behaviour of the process is an interleaving of     *)
(* independent behaviours of the two.  The variable `pipeline` fixes which *)
(* one a behaviour follows; "profiler" follows the Profiler pool alone,    *)
(* entered through its public add_to_queue.                                *)
(***************************************************************************)
EXTENDS Integers, Sequences, FiniteSets, TLC

---------------------------------------------------------------------------
\* Bounds of the model
MaxUploads == 2          \* uploads and add_to_queue calls per behaviour

\* Program constants
CV_MAX_PAGES == 2
JD_MAX_PAGES == 3
num_workers == 2

UserIds == {"u1", "u2"}              \* users present in the users container
Workers == 1..num_workers
Pipelines == {"cv", "jd", "profiler"}

\* Page counts tried against a limit: the limit itself and one more
PageCounts(limit) == {limit, limit + 1}

---------------------------------------------------------------------------
\* Values

\* str(e) of a CVError / RoleListingError, or None
NoComment == [kind |-> "none", observed |-> 0, max |-> 0]
FormatMessage == [kind |-> "format", observed |-> 0, max |-> 0]
LengthMessage(page_count, limit) ==
    [kind |-> "length", observed |-> page_count, max |-> limit]
NotFoundMessage == [kind |-> "notfound", observed |-> 0, max |-> 0]

\* CVProfileRunStatus / RoleListingRunStatus
PENDING == "pending"
COMPLETED == "completed"
FAILED == "failed"
RunStatus == {PENDING, COMPLETED, FAILED}

\* An Optional value is a sequence of length 0 (None) or 1
None == << >>
Some(x) == << x >>
IsNone(x) == Len(x) = 0
The(x) == x[1]

\* Keyed container operations (upsert_item / delete_item / query by id)
Upsert(container, id, item) ==
    [k \in DOMAIN container \cup {id} |-> IF k = id THEN item ELSE container[k]]
EmptyContainer == [k \in {} |-> None]
\* Variants of delete_item: one that empties the container, one that deletes nothing
DeleteAll(container, id) == EmptyContainer
DeleteNothing(container, id) == container
Delete(container, id) ==
    [k \in DOMAIN container \ {id} |-> container[k]]
Lookup(container, id) ==
    IF id \in DOMAIN container THEN Some(container[id]) ELSE None

---------------------------------------------------------------------------
VARIABLES
    pipeline,        \* the pipeline this behaviour follows
    uploads,         \* upload folder of a user id -> the file in it [ext, pages]
    jd_uploads,      \* upload folder of a role id -> the file in it [ext, pages]
    cv_profiles,     \* CV_PROFILES container: user id -> CVProfileRun
    role_profiles,   \* ROLE_LISTING_PROFILES container: role id -> RoleProfileRun
    role_listings,   \* ROLE_LISTINGS container: sequence of RoleListing
    users,           \* USERS container: user id -> User
    cv_queue,        \* CVProcessorWorker.cv_queue
    jd_queue,        \* JDProcessorWorker.jd_queue
    profile_queue,   \* ProfilerWorker.profile_queue
    cvw,             \* CVProcessor-i threads: position and locals
    jdw,             \* JDProcessor-i threads
    pfw,             \* Profiler-i threads
    is_running,      \* the pools' is_running flags, by pool
    submissions,     \* history: upload_cv calls accepted so far, by user id
    issued           \* role ids handed out by upload_jd so far

VARIABLE upload      \* the upload request being handled: None or [pc, id, ext]
VARIABLE fed         \* add_to_queue calls made from outside the CV stage
VARIABLES
    pool,            \* the pool singleton of the pipeline: _instance and attributes
    ctor,            \* the threads calling the pool's constructor
    puts             \* history: the items the recovery scan has put on the queue
VARIABLES
    clock,           \* time.time(), in ticks of a quarter of a second
    last_api_call,   \* rate limiter -> its _last_api_call (0: never called)
    lim_lock,        \* rate limiter -> the thread holding its _lock, or NoThread
    caller,          \* thread -> its position in a client call
    sent,            \* history: client category -> time of its latest request
    calls            \* history: client category -> requests sent so far
VARIABLE stop        \* the thread calling shutdown(): its position and joins
VARIABLE class_lock  \* the pool class's _lock: Free or the thread holding it
VARIABLE unfinished  \* pool -> unfinished_tasks of its Queue
VARIABLES
    employment_history,  \* profile.employment_history handed to the aggregates
    today,               \* datetime.now(): << year, month >>
    average_tenure,      \* result of _calculate_average_tenure, or None
    years_experience     \* result of _calculate_years_experience, or None

vars == << pipeline, uploads, jd_uploads, cv_profiles, role_profiles,
           role_listings, users, cv_queue, jd_queue, profile_queue, cvw, jdw,
           pfw, is_running, submissions, issued, upload, fed, pool, ctor, puts,
           clock, last_api_call, lim_lock, caller, sent, calls,
           employment_history, today, average_tenure, years_experience,
           stop, class_lock, unfinished >>

limVars == << clock, last_api_call, lim_lock, caller, sent, calls >>
aggVars == << employment_history, today, average_tenure, years_experience >>

\* The rate limiters and the aggregate functions are specified on their own
apart == << limVars, aggVars, stop >>

\* threading.Lock(): not held, or held by the constructor's caller c or by
\* the upload handler
Free == << >>
Caller(c) == << "constructor", c >>
Handler == << "upload", 0 >>

poolRest == << is_running, pool, ctor, puts, apart >>
poolVars == << poolRest, class_lock, unfinished >>

\* Queue.put and Queue.task_done on unfinished_tasks; a task_done with no
\* task unfinished raises ValueError and leaves the count at zero
Put(p) == [unfinished EXCEPT ![p] = @ + 1]
TaskDone(p) == [unfinished EXCEPT ![p] = IF @ = 0 THEN 0 ELSE @ - 1]

cvSide == << uploads, cv_profiles, users, cv_queue, profile_queue, cvw, pfw,
             submissions, fed >>
jdSide == << jd_uploads, role_profiles, role_listings, jd_queue, jdw, issued >>

---------------------------------------------------------------------------
\* Python call binding: a call raises TypeError unless every required
\* parameter is passed and every keyword passed names a parameter.
Binds(passed, required, accepted) ==
    required \subseteq passed /\ passed \subseteq accepted

\* CVProfileManager.update_cv_profile(self, user_id, cv_profile, *, ...)
UpdateCvProfileRequired == {"user_id", "cv_profile"}
UpdateCvProfileParams ==
    {"user_id", "cv_profile", "average_tenure", "creativity_score",
     "formatting_score", "grammar_score", "status", "status_comment",
     "years_experience"}

\* The keywords the CV stage passes at its two call sites
CVTouchCallArgs == {"cv_id", "cv_profile", "status"}
CVFailedCallArgs == {"cv_id", "cv_profile", "status", "status_comment"}
\* The Profiler passes user_id and cv_profile positionally
ProfilerCallArgs ==
    {"user_id", "cv_profile", "average_tenure", "creativity_score",
     "formatting_score", "grammar_score", "years_experience"}

UpdateCvProfileBinds(passed) ==
    Binds(passed, UpdateCvProfileRequired, UpdateCvProfileParams)

\* A CVProfileRun.  `profile` stands for the extracted profile fields,
\* `scores` for the three creativity sub-scores, `aggregates` for
\* average_tenure and years_experience.
NewCVProfileRun(file_path) ==
    [status |-> PENDING, status_comment |-> NoComment, file_path |-> file_path,
     profile |-> "empty", scores |-> None, aggregates |-> None]

\* update_cv_profile's body once the call is bound: the stored run is read,
\* a run is rebuilt from cv_profile and the keyword values, and upserted.
\* It raises (ValueError) when no run is stored, and (AttributeError) when
\* cv_profile is None.
UpdateCvProfileRaises(container, user_id, cv_profile) ==
    user_id \notin DOMAIN container \/ IsNone(cv_profile)

UpdateCvProfile(container, user_id, cv_profile, status, status_comment, scores, aggregates) ==
    Upsert(container, user_id,
           [status |-> status, status_comment |-> status_comment,
            file_path |-> container[user_id].file_path,
            profile |-> The(cv_profile).profile,
            scores |-> scores, aggregates |-> aggregates])

\* A variant of the query below without its WHERE clause
AllIds(container) == DOMAIN container
\* get_pending_cv_profiles / get_pending_role_profiles: WHERE c.status = 'pending'
PendingIds(container) == {k \in DOMAIN container : container[k].status = PENDING}

---------------------------------------------------------------------------
\* Exceptions.  A raised exception is named by its class.
CVErrors == {"CVError", "CVFormatError", "CVLengthError"}
RoleListingErrors == {"RoleListingError", "JDFormatError", "JDLengthError"}
NoExc == "none"

\* The inner try of CVProcessorWorker._process_queue has the clauses
\* `except CVError` and `except Exception`; the outer try has `except Empty`
\* and `except Exception`.  Every class raised here derives from Exception.
\* CaughtAsAnyException is a clause `except Exception` in the place of the
\* domain clause; OuterClauseMissing is an outer try with `except Empty` alone.
CaughtAsCVError(cls) == cls \in CVErrors
CaughtAsAnyException(cls) == TRUE
CaughtAsRoleListingError(cls) == cls \in RoleListingErrors
OuterClauseMissing(cls) == cls = "Empty"
OuterCatches(cls) == TRUE

\* file_path.lower().endswith(".pdf")
SupportedFileType(ext) == ext = "pdf"
\* A check that also refuses a page count equal to the limit
AtLimitOrMore(page_count, limit) == page_count >= limit
\* page_count > Configuration.CV_MAX_PAGES / JD_MAX_PAGES
TooLong(page_count, limit) == page_count > limit

---------------------------------------------------------------------------
\* Upload handlers (routers/cvs.py upload_cv, routers/roles.py upload_jd).
\* They run on the event loop, one at a time, next to the worker threads.
FileKinds(limit) ==
    {[ext |-> "pdf", pages |-> n] : n \in PageCounts(limit)}
        \cup {[ext |-> "docx", pages |-> 0]}

RECURSIVE Total(_, _)
Total(f, S) == IF S = {} THEN 0
               ELSE LET k == CHOOSE k \in S : TRUE IN f[k] + Total(f, S \ {k})

\* Requests accepted so far: uploads and add_to_queue calls
Uploaded == IF pipeline = "jd" THEN issued
            ELSE Total(submissions, UserIds) + fed

\* upload_cv up to the file being saved: the user's folder is cleared and
\* the file written as cv<ext>
UploadCvSave(user_id, file) ==
    /\ pipeline \in {"cv", "profiler"}
    /\ IsNone(upload)
    /\ Uploaded < MaxUploads
    /\ user_id \in DOMAIN users
    /\ upload' = Some([pc |-> "add_run", id |-> user_id, ext |-> file.ext])
    /\ uploads' = Upsert(uploads, user_id, file)
    /\ submissions' = [submissions EXCEPT ![user_id] = @ + 1]
    /\ UNCHANGED << pipeline, cv_profiles, users, cv_queue, profile_queue, cvw,
                    pfw, poolVars, fed, jdSide >>

\* An upload handler that goes on to the enqueue without writing the run
UploadCvSkipsRun ==
    /\ pipeline \in {"cv", "profiler"}
    /\ ~IsNone(upload) /\ The(upload).pc = "add_run"
    /\ upload' = Some([The(upload) EXCEPT !.pc = "enqueue"])
    /\ UNCHANGED << pipeline, uploads, cv_profiles, users, cv_queue,
                    profile_queue, cvw, pfw, poolVars, submissions, fed,
                    jdSide >>

\* cv_profile_manager.add_cv_profile(user_id, file_path)
UploadCvAddRun ==
    /\ pipeline \in {"cv", "profiler"}
    /\ ~IsNone(upload) /\ The(upload).pc = "add_run"
    /\ cv_profiles' = Upsert(cv_profiles, The(upload).id,
                             NewCVProfileRun(The(upload).ext))
    /\ upload' = Some([The(upload) EXCEPT !.pc = "enqueue"])
    /\ UNCHANGED << pipeline, uploads, users, cv_queue, profile_queue, cvw, pfw,
                    poolVars, submissions, fed, jdSide >>

\* cv_processor.add_cv_to_queue(user_id, file_path): with self._lock:
UploadCvLock ==
    /\ pipeline \in {"cv", "profiler"}
    /\ ~IsNone(upload) /\ The(upload).pc = "enqueue"
    /\ class_lock = Free
    /\ class_lock' = Handler
    /\ upload' = Some([The(upload) EXCEPT !.pc = "put"])
    /\ UNCHANGED << pipeline, uploads, cv_profiles, users, cv_queue,
                    profile_queue, cvw, pfw, poolRest, submissions, fed,
                    jdSide, unfinished >>

\* self.cv_queue.put((cv_id, file_path)), and the lock is released
UploadCvEnqueue ==
    /\ pipeline \in {"cv", "profiler"}
    /\ ~IsNone(upload) /\ The(upload).pc = "put"
    /\ cv_queue' = Append(cv_queue, [id |-> The(upload).id, ext |-> The(upload).ext])
    /\ unfinished' = Put("cv")
    /\ class_lock' = Free
    /\ upload' = None
    /\ UNCHANGED << pipeline, uploads, cv_profiles, users, profile_queue, cvw,
                    pfw, poolRest, submissions, fed, jdSide >>

---------------------------------------------------------------------------
\* CVProcessorWorker._process_queue, one thread

CvIdle == [pc |-> "loop", id |-> "-", ext |-> "-", exc |-> NoExc,
           msg |-> NoComment, escaped |-> NoExc, run |-> None,
           assessment |-> None]

\* An exception of class cls raised in the inner try's body
CVRaise(rec, cls, msg) ==
    IF CaughtAsCVError(cls)
    THEN [rec EXCEPT !.pc = "handler_get", !.exc = cls, !.msg = msg]
    ELSE [rec EXCEPT !.pc = "finally", !.exc = cls]

\* An exception raised inside the `except CVError` clause leaves the inner try
CVRaiseInHandler(rec, cls) == [rec EXCEPT !.pc = "finally", !.escaped = cls]

cvRest == << pipeline, uploads, users, pfw, poolRest, class_lock, submissions,
             upload, fed, jdSide >>
cvOthers == << cvRest, unfinished >>

\* while self.is_running:
CVLoop(w) ==
    /\ pipeline = "cv"
    /\ cvw[w].pc = "loop"
    /\ cvw' = [cvw EXCEPT ![w].pc = IF is_running["cv"] THEN "get" ELSE "exited"]
    /\ UNCHANGED << cv_profiles, cv_queue, profile_queue, cvOthers >>

\* A variant of the dequeue below in which a thread that obtains an item
\* after the flag was cleared exits with the item in hand
CVGetAbandons(w) ==
    /\ pipeline = "cv"
    /\ cvw[w].pc = "get"
    /\ IF cv_queue = << >>
       THEN /\ cvw' = [cvw EXCEPT ![w].pc =
                         IF is_running["cv"] THEN "get" ELSE "exited"]
            /\ UNCHANGED cv_queue
       ELSE /\ cvw' = [cvw EXCEPT ![w] =
                         [CvIdle EXCEPT !.pc = IF is_running["cv"] THEN "process"
                                               ELSE "exited",
                                        !.id = Head(cv_queue).id,
                                        !.ext = Head(cv_queue).ext]]
            /\ cv_queue' = Tail(cv_queue)
    /\ UNCHANGED << cv_profiles, profile_queue, cvOthers >>

\* cv_id, file_path = self.cv_queue.get(timeout=1).  On Empty the loop
\* continues: the flag is tested again and, when it still holds, the thread
\* is back in get
CVGet(w) ==
    /\ pipeline = "cv"
    /\ cvw[w].pc = "get"
    /\ IF cv_queue = << >>
       THEN /\ cvw' = [cvw EXCEPT ![w].pc =
                         IF is_running["cv"] THEN "get" ELSE "exited"]
            /\ UNCHANGED cv_queue
       ELSE /\ cvw' = [cvw EXCEPT ![w] = [CvIdle EXCEPT !.pc = "process",
                                           !.id = Head(cv_queue).id,
                                           !.ext = Head(cv_queue).ext]]
            /\ cv_queue' = Tail(cv_queue)
    /\ UNCHANGED << cv_profiles, profile_queue, cvOthers >>

\* The format check, opening the file and the page-count check
CVValidate(w) ==
    /\ pipeline = "cv"
    /\ cvw[w].pc = "process"
    /\ LET rec == cvw[w]
           file == Lookup(uploads, rec.id)
       IN  cvw' = [cvw EXCEPT ![w] =
             IF ~SupportedFileType(rec.ext)
             THEN CVRaise(rec, "CVFormatError", FormatMessage)
             ELSE IF IsNone(file) \/ The(file).ext # rec.ext
             THEN CVRaise(rec, "FileNotFoundError", NoComment)
             ELSE IF TooLong(The(file).pages, CV_MAX_PAGES)
             THEN CVRaise(rec, "CVLengthError",
                          LengthMessage(The(file).pages, CV_MAX_PAGES))
             ELSE [rec EXCEPT !.pc = "extract"]]
    /\ UNCHANGED << cv_profiles, cv_queue, profile_queue, cvOthers >>

\* analyze_paragraphs, the link scan, page rendering, describe_doc_pages and
\* the scratch directory clean-up.  The services raise, or the vision call
\* returns a CVDescription or None (a refusal).
ServiceOutcomes == {"extraction_raises", "vision_raises", "refusal", "result"}

CVExtract(w, outcome) ==
    /\ pipeline = "cv"
    /\ cvw[w].pc = "extract"
    /\ cvw' = [cvw EXCEPT ![w] =
         CASE outcome = "extraction_raises" -> CVRaise(@, "Exception", NoComment)
           [] outcome = "vision_raises" -> CVRaise(@, "LLMInferenceError", NoComment)
           [] outcome = "refusal" -> [@ EXCEPT !.pc = "touch_get", !.assessment = None]
           [] outcome = "result" ->
                [@ EXCEPT !.pc = "touch_get", !.assessment = Some("scores")]]
    /\ UNCHANGED << cv_profiles, cv_queue, profile_queue, cvOthers >>

\* cv_profile = cv_profile_manager.get_cv_profile(cv_id)
\* cv_profile.updated_at = datetime.now()
CVTouchGet(w) ==
    /\ pipeline = "cv"
    /\ cvw[w].pc = "touch_get"
    /\ LET run == Lookup(cv_profiles, cvw[w].id)
       IN  cvw' = [cvw EXCEPT ![w] =
             IF IsNone(run) THEN CVRaise(@, "AttributeError", NoComment)
             ELSE [@ EXCEPT !.pc = "touch_put", !.run = run]]
    /\ UNCHANGED << cv_profiles, cv_queue, profile_queue, cvOthers >>

\* The item handed to the Profiler: (cv_id, paragraphs, creativity_assessment)
ProfileItem(cv_id, assessment) ==
    [id |-> cv_id, paragraphs |-> "paragraphs", assessment |-> assessment]

\* cv_profile_manager.update_cv_profile(cv_id=..., cv_profile=..., status=...)
\* profiler = ProfilerWorker(); profiler.add_to_queue(...)
CVTouchPut(w) ==
    /\ pipeline = "cv"
    /\ cvw[w].pc = "touch_put"
    /\ LET rec == cvw[w] IN
       IF ~UpdateCvProfileBinds(CVTouchCallArgs)
       THEN /\ cvw' = [cvw EXCEPT ![w] = CVRaise(rec, "TypeError", NoComment)]
            /\ UNCHANGED << cv_profiles, profile_queue, unfinished >>
       ELSE IF UpdateCvProfileRaises(cv_profiles, rec.id, rec.run)
       THEN /\ cvw' = [cvw EXCEPT ![w] = CVRaise(rec, "ValueError", NoComment)]
            /\ UNCHANGED << cv_profiles, profile_queue, unfinished >>
       ELSE /\ cv_profiles' = UpdateCvProfile(cv_profiles, rec.id, rec.run,
                                  The(rec.run).status, NoComment, None, None)
            /\ profile_queue' = Append(profile_queue,
                                       ProfileItem(rec.id, rec.assessment))
            /\ unfinished' = Put("profiler")
            /\ cvw' = [cvw EXCEPT ![w].pc = "finally"]
    /\ UNCHANGED << cv_queue, cvRest >>

\* except CVError as e: cv_profile = get_cv_profile(e.cv_id);
\* cv_profile.status = FAILED
CVHandlerGet(w) ==
    /\ pipeline = "cv"
    /\ cvw[w].pc = "handler_get"
    /\ LET run == Lookup(cv_profiles, cvw[w].id)
       IN  cvw' = [cvw EXCEPT ![w] =
             IF IsNone(run) THEN CVRaiseInHandler(@, "AttributeError")
             ELSE [@ EXCEPT !.pc = "handler_put",
                            !.run = Some([The(run) EXCEPT !.status = FAILED])]]
    /\ UNCHANGED << cv_profiles, cv_queue, profile_queue, cvOthers >>

\* A variant of the clause below that passes the item on to the Profiler
CVHandlerPutHandsOff(w) ==
    /\ pipeline = "cv"
    /\ cvw[w].pc = "handler_put"
    /\ profile_queue' = Append(profile_queue,
                               ProfileItem(cvw[w].id, cvw[w].assessment))
    /\ unfinished' = Put("profiler")
    /\ cvw' = [cvw EXCEPT ![w].pc = "finally"]
    /\ UNCHANGED << cv_profiles, cv_queue, cvRest >>

\* cv_profile_manager.update_cv_profile(cv_id=e.cv_id, cv_profile=cv_profile,
\*     status=cv_profile.status, status_comment=str(e))
CVHandlerPut(w) ==
    /\ pipeline = "cv"
    /\ cvw[w].pc = "handler_put"
    /\ LET rec == cvw[w] IN
       IF ~UpdateCvProfileBinds(CVFailedCallArgs)
       THEN /\ cvw' = [cvw EXCEPT ![w] = CVRaiseInHandler(rec, "TypeError")]
            /\ UNCHANGED cv_profiles
       ELSE IF UpdateCvProfileRaises(cv_profiles, rec.id, rec.run)
       THEN /\ cvw' = [cvw EXCEPT ![w] = CVRaiseInHandler(rec, "ValueError")]
            /\ UNCHANGED cv_profiles
       ELSE /\ cv_profiles' = UpdateCvProfile(cv_profiles, rec.id, rec.run,
                                  The(rec.run).status, rec.msg, None, None)
            /\ cvw' = [cvw EXCEPT ![w].pc = "finally"]
    /\ UNCHANGED << cv_queue, profile_queue, cvOthers >>

\* A finally clause that goes back to the loop without task_done()
CVFinallySkipsTaskDone(w) ==
    /\ pipeline = "cv"
    /\ cvw[w].pc = "finally"
    /\ cvw' = [cvw EXCEPT ![w] = CvIdle]
    /\ UNCHANGED << cv_profiles, cv_queue, profile_queue, cvOthers >>

\* finally: self.cv_queue.task_done(); an exception that left the inner try
\* reaches the outer `except Exception: log_exception(e); continue`
CVFinally(w) ==
    /\ pipeline = "cv"
    /\ cvw[w].pc = "finally"
    /\ unfinished' = TaskDone("cv")
    /\ cvw' = [cvw EXCEPT ![w] =
         IF cvw[w].escaped # NoExc /\ ~OuterCatches(cvw[w].escaped)
         THEN [CvIdle EXCEPT !.pc = "dead"]
         ELSE CvIdle]
    /\ UNCHANGED << cv_profiles, cv_queue, profile_queue, cvRest >>

---------------------------------------------------------------------------
\* The JD pipeline: RoleProfileManager, RoleListingManager, upload_jd

\* RoleProfileRun.  `profile` stands for the extracted listing fields.
NewRoleProfileRun(file_path, creator_id) ==
    [status |-> PENDING, status_comment |-> NoComment, file_path |-> file_path,
     creator_id |-> creator_id, profile |-> "empty"]

\* RoleProfileManager.update_role_profile: raises ValueError when no run is
\* stored and AttributeError when role_profile is None; otherwise the stored
\* run is overlaid with role_profile's fields, creator_id, status and comment
UpdateRoleProfileRaises(container, role_id, role_profile) ==
    role_id \notin DOMAIN container \/ IsNone(role_profile)

UpdatedRoleProfile(container, role_id, role_profile, creator_id, status, status_comment) ==
    [container[role_id] EXCEPT !.profile = The(role_profile).profile,
                               !.creator_id = creator_id,
                               !.status = status,
                               !.status_comment = status_comment]

\* RoleListingManager.add_role_from_profile
AddRoleFromProfileRaises(role_profile_run) ==
    role_profile_run.status # COMPLETED

\* The RoleListing built from a run; it gets an id of its own, run_id is
\* history kept for the properties
RoleListingFrom(role_profile_run, run_id) ==
    [creator_id |-> role_profile_run.creator_id,
     profile |-> role_profile_run.profile, run_id |-> run_id]

\* upload_jd up to the file being saved; role_id = str(uuid.uuid4())
UploadJdSave(creator_id, file) ==
    /\ pipeline = "jd"
    /\ IsNone(upload)
    /\ Uploaded < MaxUploads
    /\ creator_id \in DOMAIN users /\ users[creator_id].role = "recruiter"
    /\ issued' = issued + 1
    /\ upload' = Some([pc |-> "add_run", id |-> issued + 1, ext |-> file.ext,
                       creator_id |-> creator_id])
    /\ jd_uploads' = Upsert(jd_uploads, issued + 1, file)
    /\ UNCHANGED << pipeline, role_profiles, role_listings, jd_queue, jdw,
                    poolVars, cvSide >>

\* role_profile_manager.add_role_profile(role_id, file_path, user_id)
UploadJdAddRun ==
    /\ pipeline = "jd"
    /\ ~IsNone(upload) /\ The(upload).pc = "add_run"
    /\ role_profiles' = Upsert(role_profiles, The(upload).id,
           NewRoleProfileRun(The(upload).ext, The(upload).creator_id))
    /\ upload' = Some([The(upload) EXCEPT !.pc = "enqueue"])
    /\ UNCHANGED << pipeline, jd_uploads, role_listings, jd_queue, jdw, issued,
                    poolVars, cvSide >>

\* jd_processor.add_jd_to_queue(role_id, file_path): with self._lock:
UploadJdLock ==
    /\ pipeline = "jd"
    /\ ~IsNone(upload) /\ The(upload).pc = "enqueue"
    /\ class_lock = Free
    /\ class_lock' = Handler
    /\ upload' = Some([The(upload) EXCEPT !.pc = "put"])
    /\ UNCHANGED << pipeline, jd_uploads, role_profiles, role_listings,
                    jd_queue, jdw, issued, poolRest, cvSide, unfinished >>

\* self.jd_queue.put((jd_id, file_path)), and the lock is released
UploadJdEnqueue ==
    /\ pipeline = "jd"
    /\ ~IsNone(upload) /\ The(upload).pc = "put"
    /\ jd_queue' = Append(jd_queue, [id |-> The(upload).id, ext |-> The(upload).ext])
    /\ unfinished' = Put("jd")
    /\ class_lock' = Free
    /\ upload' = None
    /\ UNCHANGED << pipeline, jd_uploads, role_profiles, role_listings, jdw,
                    issued, poolRest, cvSide >>

---------------------------------------------------------------------------
\* JDProcessorWorker._process_queue, one thread

JdIdle == [pc |-> "loop", id |-> 0, ext |-> "-", exc |-> NoExc,
           msg |-> NoComment, escaped |-> NoExc, run |-> None,
           analysis |-> None]

JDRaise(rec, cls, msg) ==
    IF CaughtAsRoleListingError(cls)
    THEN [rec EXCEPT !.pc = "handler_get", !.exc = cls, !.msg = msg]
    ELSE [rec EXCEPT !.pc = "finally", !.exc = cls]

JDRaiseInHandler(rec, cls) == [rec EXCEPT !.pc = "finally", !.escaped = cls]

jdRest == << pipeline, jd_uploads, issued, poolRest, class_lock, upload,
             cvSide >>
jdOthers == << jdRest, unfinished >>

\* while self.is_running:
JDLoop(w) ==
    /\ pipeline = "jd"
    /\ jdw[w].pc = "loop"
    /\ jdw' = [jdw EXCEPT ![w].pc = IF is_running["jd"] THEN "get" ELSE "exited"]
    /\ UNCHANGED << role_profiles, role_listings, jd_queue, jdOthers >>

\* jd_id, file_path = self.jd_queue.get(timeout=1); on Empty as in CVGet
JDGet(w) ==
    /\ pipeline = "jd"
    /\ jdw[w].pc = "get"
    /\ IF jd_queue = << >>
       THEN /\ jdw' = [jdw EXCEPT ![w].pc =
                         IF is_running["jd"] THEN "get" ELSE "exited"]
            /\ UNCHANGED jd_queue
       ELSE /\ jdw' = [jdw EXCEPT ![w] = [JdIdle EXCEPT !.pc = "process",
                                           !.id = Head(jd_queue).id,
                                           !.ext = Head(jd_queue).ext]]
            /\ jd_queue' = Tail(jd_queue)
    /\ UNCHANGED << role_profiles, role_listings, jdOthers >>

\* role_profile_run = role_profile_manager.get_role_profile(jd_id)
\* if not role_profile_run: raise RoleListingError(...)
\* role_profile_run.updated_at = datetime.now()
JDLookup(w) ==
    /\ pipeline = "jd"
    /\ jdw[w].pc = "process"
    /\ LET run == Lookup(role_profiles, jdw[w].id)
       IN  jdw' = [jdw EXCEPT ![w] =
             IF IsNone(run) THEN JDRaise(@, "RoleListingError", NotFoundMessage)
             ELSE [@ EXCEPT !.pc = "touch", !.run = run]]
    /\ UNCHANGED << role_profiles, role_listings, jd_queue, jdOthers >>

\* role_profile_run = update_role_profile(role_id=jd_id,
\*     role_profile=role_profile_run, creator_id=..., status=role_profile_run.status)
JDTouch(w) ==
    /\ pipeline = "jd"
    /\ jdw[w].pc = "touch"
    /\ LET rec == jdw[w] IN
       IF UpdateRoleProfileRaises(role_profiles, rec.id, rec.run)
       THEN /\ jdw' = [jdw EXCEPT ![w] = JDRaise(rec, "ValueError", NoComment)]
            /\ UNCHANGED role_profiles
       ELSE LET updated == UpdatedRoleProfile(role_profiles, rec.id, rec.run,
                               The(rec.run).creator_id, The(rec.run).status,
                               NoComment)
            IN  /\ role_profiles' = Upsert(role_profiles, rec.id, updated)
                /\ jdw' = [jdw EXCEPT ![w].pc = "validate",
                                      ![w].run = Some(updated)]
    /\ UNCHANGED << role_listings, jd_queue, jdOthers >>

\* The format check, opening the file and the page-count check
JDValidate(w) ==
    /\ pipeline = "jd"
    /\ jdw[w].pc = "validate"
    /\ LET rec == jdw[w]
           file == Lookup(jd_uploads, rec.id)
       IN  jdw' = [jdw EXCEPT ![w] =
             IF ~SupportedFileType(rec.ext)
             THEN JDRaise(rec, "JDFormatError", FormatMessage)
             ELSE IF IsNone(file) \/ The(file).ext # rec.ext
             THEN JDRaise(rec, "FileNotFoundError", NoComment)
             ELSE IF TooLong(The(file).pages, JD_MAX_PAGES)
             THEN JDRaise(rec, "JDLengthError",
                          LengthMessage(The(file).pages, JD_MAX_PAGES))
             ELSE [rec EXCEPT !.pc = "analyze"]]
    /\ UNCHANGED << role_profiles, role_listings, jd_queue, jdOthers >>

\* analyze_paragraphs and llm_processor.analyze_jd: a service raises, or the
\* LLM returns a RoleProfile or None (a refusal)
JdServiceOutcomes == {"extraction_raises", "llm_raises", "refusal", "result"}

JDAnalyze(w, outcome) ==
    /\ pipeline = "jd"
    /\ jdw[w].pc = "analyze"
    /\ jdw' = [jdw EXCEPT ![w] =
         CASE outcome = "extraction_raises" -> JDRaise(@, "Exception", NoComment)
           [] outcome = "llm_raises" -> JDRaise(@, "LLMInferenceError", NoComment)
           [] outcome = "refusal" -> [@ EXCEPT !.pc = "complete", !.analysis = None]
           [] outcome = "result" ->
                [@ EXCEPT !.pc = "complete",
                          !.analysis = Some([profile |-> "listing"])]]
    /\ UNCHANGED << role_profiles, role_listings, jd_queue, jdOthers >>

\* A completion that stores the run as COMPLETED whether or not the LLM
\* returned an analysis
JDCompleteStoresRefusal(w) ==
    /\ pipeline = "jd"
    /\ jdw[w].pc = "complete"
    /\ LET rec == jdw[w] IN
       IF rec.id \notin DOMAIN role_profiles
       THEN /\ jdw' = [jdw EXCEPT ![w] = JDRaise(rec, "ValueError", NoComment)]
            /\ UNCHANGED role_profiles
       ELSE LET updated == [role_profiles[rec.id] EXCEPT !.status = COMPLETED]
            IN  /\ role_profiles' = Upsert(role_profiles, rec.id, updated)
                /\ jdw' = [jdw EXCEPT ![w].pc = "promote",
                                      ![w].run = Some(updated)]
    /\ UNCHANGED << role_listings, jd_queue, jdOthers >>

\* role_profile_run.status = COMPLETED
\* role_profile_run = update_role_profile(role_id=jd_id, role_profile=jd_analysis,
\*     creator_id=..., status=role_profile_run.status)
JDComplete(w) ==
    /\ pipeline = "jd"
    /\ jdw[w].pc = "complete"
    /\ LET rec == jdw[w] IN
       IF UpdateRoleProfileRaises(role_profiles, rec.id, rec.analysis)
       THEN /\ jdw' = [jdw EXCEPT ![w] =
                         JDRaise(rec, IF rec.id \in DOMAIN role_profiles
                                      THEN "AttributeError" ELSE "ValueError",
                                 NoComment)]
            /\ UNCHANGED role_profiles
       ELSE LET updated == UpdatedRoleProfile(role_profiles, rec.id, rec.analysis,
                               The(rec.run).creator_id, COMPLETED, NoComment)
            IN  /\ role_profiles' = Upsert(role_profiles, rec.id, updated)
                /\ jdw' = [jdw EXCEPT ![w].pc = "promote",
                                      ![w].run = Some(updated)]
    /\ UNCHANGED << role_listings, jd_queue, jdOthers >>

\* A promotion that goes on to the delete when the store has refused the
\* Listing
JDPromoteSwallows(w) ==
    /\ pipeline = "jd"
    /\ jdw[w].pc = "promote"
    /\ \/ role_listings' =
              Append(role_listings, RoleListingFrom(The(jdw[w].run), jdw[w].id))
       \/ UNCHANGED role_listings
    /\ jdw' = [jdw EXCEPT ![w].pc = "delete"]
    /\ UNCHANGED << role_profiles, jd_queue, jdOthers >>

\* role_listing_manager.add_role_from_profile(role_profile_run): the status
\* check, then add_role, whose upsert_item stores the Listing or raises
JDPromote(w) ==
    /\ pipeline = "jd"
    /\ jdw[w].pc = "promote"
    /\ LET rec == jdw[w] IN
       IF AddRoleFromProfileRaises(The(rec.run))
       THEN /\ jdw' = [jdw EXCEPT ![w] = JDRaise(rec, "ValueError", NoComment)]
            /\ UNCHANGED role_listings
       ELSE \/ /\ role_listings' =
                     Append(role_listings, RoleListingFrom(The(rec.run), rec.id))
               /\ jdw' = [jdw EXCEPT ![w].pc = "delete"]
            \/ /\ jdw' = [jdw EXCEPT ![w] =
                            JDRaise(rec, "CosmosHttpResponseError", NoComment)]
               /\ UNCHANGED role_listings
    /\ UNCHANGED << role_profiles, jd_queue, jdOthers >>

\* role_profile_manager.delete_role_profile(role_profile_run.id)
JDDelete(w) ==
    /\ pipeline = "jd"
    /\ jdw[w].pc = "delete"
    /\ LET rec == jdw[w] IN
       IF rec.id \notin DOMAIN role_profiles
       THEN /\ jdw' = [jdw EXCEPT ![w] =
                         JDRaise(rec, "CosmosResourceNotFoundError", NoComment)]
            /\ UNCHANGED role_profiles
       ELSE /\ role_profiles' = Delete(role_profiles, rec.id)
            /\ jdw' = [jdw EXCEPT ![w].pc = "finally"]
    /\ UNCHANGED << role_listings, jd_queue, jdOthers >>

\* except RoleListingError as e: role_profile_run = get_role_profile(e.jd_id)
\* if role_profile_run: role_profile_run.status = FAILED
JDHandlerGet(w) ==
    /\ pipeline = "jd"
    /\ jdw[w].pc = "handler_get"
    /\ LET run == Lookup(role_profiles, jdw[w].id)
       IN  jdw' = [jdw EXCEPT ![w] =
             IF IsNone(run) THEN [@ EXCEPT !.pc = "finally", !.run = None]
             ELSE [@ EXCEPT !.pc = "handler_put",
                            !.run = Some([The(run) EXCEPT !.status = FAILED])]]
    /\ UNCHANGED << role_profiles, role_listings, jd_queue, jdOthers >>

\* The status the `except RoleListingError` clause writes; the variant is a
\* clause that writes the comment and leaves the status as stored
HandlerStatusPending(role_profile_run) == PENDING
JDHandlerStatus(role_profile_run) == role_profile_run.status

\* update_role_profile(role_id=e.jd_id, role_profile=role_profile_run,
\*     creator_id=..., status=role_profile_run.status, status_comment=str(e))
JDHandlerPut(w) ==
    /\ pipeline = "jd"
    /\ jdw[w].pc = "handler_put"
    /\ LET rec == jdw[w] IN
       IF UpdateRoleProfileRaises(role_profiles, rec.id, rec.run)
       THEN /\ jdw' = [jdw EXCEPT ![w] = JDRaiseInHandler(rec, "ValueError")]
            /\ UNCHANGED role_profiles
       ELSE /\ role_profiles' = Upsert(role_profiles, rec.id,
                  UpdatedRoleProfile(role_profiles, rec.id, rec.run,
                      The(rec.run).creator_id, JDHandlerStatus(The(rec.run)),
                      rec.msg))
            /\ jdw' = [jdw EXCEPT ![w].pc = "finally"]
    /\ UNCHANGED << role_listings, jd_queue, jdOthers >>

\* finally: self.jd_queue.task_done(); then the outer except clauses
JDFinally(w) ==
    /\ pipeline = "jd"
    /\ jdw[w].pc = "finally"
    /\ jdw' = [jdw EXCEPT ![w] =
         IF jdw[w].escaped # NoExc /\ ~OuterCatches(jdw[w].escaped)
         THEN [JdIdle EXCEPT !.pc = "dead"]
         ELSE JdIdle]
    /\ unfinished' = TaskDone("jd")
    /\ UNCHANGED << role_profiles, role_listings, jd_queue, jdRest >>

---------------------------------------------------------------------------
\* The Profiler stage: ProfilerWorker, UserManager

\* A User: its role, the onboarded flag and the profile fields merged so far
NewUser(role) == [role |-> role, is_onboarded |-> FALSE, profile |-> "empty"]

\* ProfilerWorker.add_to_queue(cv_id, paragraphs, creativity_assessment),
\* called for a user whose run is stored
AddToQueue(cv_id, assessment) ==
    /\ pipeline = "profiler"
    /\ Uploaded < MaxUploads
    /\ cv_id \in DOMAIN cv_profiles
    /\ fed' = fed + 1
    /\ profile_queue' = Append(profile_queue, ProfileItem(cv_id, assessment))
    /\ unfinished' = Put("profiler")
    /\ UNCHANGED << pipeline, uploads, cv_profiles, users, cv_queue, cvw, pfw,
                    poolRest, class_lock, submissions, upload, jdSide >>

PfIdle == [pc |-> "loop", id |-> "-", assessment |-> None, exc |-> NoExc,
           escaped |-> NoExc, profile |-> None, aggregates |-> None,
           run |-> None, user |-> None]

\* The Profiler's inner try has the single clause `except Exception`
PFRaise(rec, cls) == [rec EXCEPT !.pc = "finally", !.exc = cls]

pfRest == << pipeline, uploads, cv_queue, cvw, poolRest, class_lock,
             submissions, upload, fed, jdSide >>
pfOthers == << pfRest, unfinished >>

\* while self.is_running:
PFLoop(w) ==
    /\ pipeline = "profiler"
    /\ pfw[w].pc = "loop"
    /\ pfw' = [pfw EXCEPT ![w].pc =
                 IF is_running["profiler"] THEN "get" ELSE "exited"]
    /\ UNCHANGED << cv_profiles, users, profile_queue, pfOthers >>

\* A variant of the dequeue below that reads the head and leaves it queued
PFGetPeeks(w) ==
    /\ pipeline = "profiler"
    /\ pfw[w].pc = "get"
    /\ profile_queue # << >>
    /\ pfw' = [pfw EXCEPT ![w] =
                 [PfIdle EXCEPT !.pc = "analyze",
                                !.id = Head(profile_queue).id,
                                !.assessment = Head(profile_queue).assessment]]
    /\ UNCHANGED << cv_profiles, users, profile_queue, pfOthers >>

\* cv_id, paragraphs, creativity_assessment = self.profile_queue.get(timeout=1);
\* on Empty as in CVGet
PFGet(w) ==
    /\ pipeline = "profiler"
    /\ pfw[w].pc = "get"
    /\ IF profile_queue = << >>
       THEN /\ pfw' = [pfw EXCEPT ![w].pc =
                         IF is_running["profiler"] THEN "get" ELSE "exited"]
            /\ UNCHANGED profile_queue
       ELSE /\ pfw' = [pfw EXCEPT ![w] =
                         [PfIdle EXCEPT !.pc = "analyze",
                                        !.id = Head(profile_queue).id,
                                        !.assessment = Head(profile_queue).assessment]]
            /\ profile_queue' = Tail(profile_queue)
    /\ UNCHANGED << cv_profiles, users, pfOthers >>

\* profile = self.llm_processor.analyze_cv(...): it raises LLMInferenceError,
\* or returns None (a refusal) or a CVProfile; the two aggregates are
\* computed when `profile and profile.employment_history`
ProfilerOutcomes == {"llm_raises", "refusal", "no_history", "history"}

\* A variant of the guard below that computes the aggregates for every profile
AggregatesAlways(profile) == Some("aggregates")
AggregatesFor(profile) ==
    IF ~IsNone(profile) /\ The(profile).employment_history
    THEN Some("aggregates") ELSE None

PFAnalyze(w, outcome) ==
    /\ pipeline = "profiler"
    /\ pfw[w].pc = "analyze"
    /\ LET profile ==
             CASE outcome = "refusal" -> None
               [] outcome = "no_history" ->
                    Some([profile |-> "cv", employment_history |-> FALSE])
               [] OTHER -> Some([profile |-> "cv", employment_history |-> TRUE])
       IN  pfw' = [pfw EXCEPT ![w] =
             IF outcome = "llm_raises" THEN PFRaise(@, "LLMInferenceError")
             ELSE [@ EXCEPT !.pc = "write", !.profile = profile,
                            !.aggregates = AggregatesFor(profile)]]
    /\ UNCHANGED << cv_profiles, users, profile_queue, pfOthers >>

\* The status update_cv_profile writes when the caller passes none; the
\* variant is a default of PENDING
StatusDefaultPending == PENDING
UpdateCvProfileDefaultStatus == COMPLETED

\* cv_profile_manager.update_cv_profile(cv_id, profile, average_tenure=...,
\*     creativity_score=creativity_assessment.creativity_score, ...)
PFWrite(w) ==
    /\ pipeline = "profiler"
    /\ pfw[w].pc = "write"
    /\ LET rec == pfw[w] IN
       IF IsNone(rec.assessment)
       THEN /\ pfw' = [pfw EXCEPT ![w] = PFRaise(rec, "AttributeError")]
            /\ UNCHANGED cv_profiles
       ELSE IF ~UpdateCvProfileBinds(ProfilerCallArgs)
       THEN /\ pfw' = [pfw EXCEPT ![w] = PFRaise(rec, "TypeError")]
            /\ UNCHANGED cv_profiles
       ELSE IF UpdateCvProfileRaises(cv_profiles, rec.id, rec.profile)
       THEN /\ pfw' = [pfw EXCEPT ![w] =
                         PFRaise(rec, IF rec.id \in DOMAIN cv_profiles
                                      THEN "AttributeError" ELSE "ValueError")]
            /\ UNCHANGED cv_profiles
       ELSE /\ cv_profiles' = UpdateCvProfile(cv_profiles, rec.id, rec.profile,
                                  UpdateCvProfileDefaultStatus, NoComment,
                                  rec.assessment, rec.aggregates)
            /\ pfw' = [pfw EXCEPT ![w].pc = "get_user"]
    /\ UNCHANGED << users, profile_queue, pfOthers >>

\* user = user_manager.get_user_by_id(cv_id); if user: ...
PFGetUser(w) ==
    /\ pipeline = "profiler"
    /\ pfw[w].pc = "get_user"
    /\ LET user == Lookup(users, pfw[w].id)
       IN  pfw' = [pfw EXCEPT ![w] =
             IF IsNone(user) THEN [@ EXCEPT !.pc = "finally"]
             ELSE [@ EXCEPT !.pc = "get_run", !.user = user]]
    /\ UNCHANGED << cv_profiles, users, profile_queue, pfOthers >>

\* cv_profile_run = cv_profile_manager.get_cv_profile(cv_id)
PFGetRun(w) ==
    /\ pipeline = "profiler"
    /\ pfw[w].pc = "get_run"
    /\ pfw' = [pfw EXCEPT ![w].pc = "merge",
                          ![w].run = Lookup(cv_profiles, pfw[w].id)]
    /\ UNCHANGED << cv_profiles, users, profile_queue, pfOthers >>

\* UserManager.update_user_from_cv_profile: raises unless the run handed in
\* reads COMPLETED and the user is stored
UpdateUserFromCvProfileRaises(cv_profile_run) ==
    cv_profile_run.status # COMPLETED

\* user = user_manager.update_user_from_cv_profile(cv_id, cv_profile_run), up
\* to the embedding call: the status check, existing_user = get_user_by_id and
\* updated_user = existing_user's fields overlaid with the run's
PFMerge(w) ==
    /\ pipeline = "profiler"
    /\ pfw[w].pc = "merge"
    /\ LET rec == pfw[w] IN
       IF IsNone(rec.run)
       THEN /\ pfw' = [pfw EXCEPT ![w] = PFRaise(rec, "AttributeError")]
            /\ UNCHANGED users
       ELSE IF UpdateUserFromCvProfileRaises(The(rec.run))
       THEN /\ pfw' = [pfw EXCEPT ![w] = PFRaise(rec, "ValueError")]
            /\ UNCHANGED users
       ELSE IF rec.id \notin DOMAIN users
       THEN /\ pfw' = [pfw EXCEPT ![w] = PFRaise(rec, "UserNotFoundError")]
            /\ UNCHANGED users
       ELSE LET updated == [users[rec.id] EXCEPT !.profile = The(rec.run).profile]
            IN  /\ pfw' = [pfw EXCEPT ![w].pc = "merge_put",
                                      ![w].user = Some(updated)]
                /\ UNCHANGED users
    /\ UNCHANGED << cv_profiles, profile_queue, pfOthers >>

\* update_user_from_cv_profile after the embedding call (best-effort, its
\* failure is logged): self.update_user(user_id, updated_user); return
PFMergePut(w) ==
    /\ pipeline = "profiler"
    /\ pfw[w].pc = "merge_put"
    /\ LET rec == pfw[w] IN
       IF rec.id \notin DOMAIN users
       THEN /\ pfw' = [pfw EXCEPT ![w] = PFRaise(rec, "UserNotFoundError")]
            /\ UNCHANGED users
       ELSE /\ users' = [users EXCEPT ![rec.id] = The(rec.user)]
            /\ pfw' = [pfw EXCEPT ![w].pc = "onboard"]
    /\ UNCHANGED << cv_profiles, profile_queue, pfOthers >>

\* if not user.is_onboarded: user.is_onboarded = True; update_user(cv_id, user)
PFOnboard(w) ==
    /\ pipeline = "profiler"
    /\ pfw[w].pc = "onboard"
    /\ LET rec == pfw[w] IN
       IF The(rec.user).is_onboarded
       THEN /\ pfw' = [pfw EXCEPT ![w].pc = "finally"]
            /\ UNCHANGED users
       ELSE IF rec.id \notin DOMAIN users
       THEN /\ pfw' = [pfw EXCEPT ![w] = PFRaise(rec, "UserNotFoundError")]
            /\ UNCHANGED users
       ELSE /\ users' = [users EXCEPT ![rec.id] =
                           [The(rec.user) EXCEPT !.is_onboarded = TRUE]]
            /\ pfw' = [pfw EXCEPT ![w].pc = "finally"]
    /\ UNCHANGED << cv_profiles, profile_queue, pfOthers >>

\* finally: self.profile_queue.task_done(); then the outer except clauses
PFFinally(w) ==
    /\ pipeline = "profiler"
    /\ pfw[w].pc = "finally"
    /\ pfw' = [pfw EXCEPT ![w] =
         IF pfw[w].escaped # NoExc /\ ~OuterCatches(pfw[w].escaped)
         THEN [PfIdle EXCEPT !.pc = "dead"]
         ELSE PfIdle]
    /\ unfinished' = TaskDone("profiler")
    /\ UNCHANGED << cv_profiles, users, profile_queue, pfRest >>

---------------------------------------------------------------------------
\* The recovery scan of a pool's constructor: every run that reads pending
\* is put on the queue as (id, file_path); the query fixes no order.
Orderings(S) ==
    {p \in [1..Cardinality(S) -> S] : \A i, j \in DOMAIN p : i # j => p[i] # p[j]}

RecoveryScan(container) ==
    {[i \in DOMAIN p |-> [id |-> p[i], ext |-> container[p[i]].file_path]] :
        p \in Orderings(PendingIds(container))}

---------------------------------------------------------------------------
\* Rate limiters of the service clients.
\*
\* Time is counted in ticks of a quarter of a second.  The clock never runs
\* backwards and time.sleep(d) returns no earlier than d after it was called.

MaxTicks == 5
MaxCalls == 3

\* _api_rate_limit = 0.5 seconds (LLMProcessor and EmbeddingsClient)
ApiRateLimit == 2
\* vision_rate_limit = 1.0 seconds
VisionRateLimit == 4

\* time.time() when the process starts: further from the epoch (where
\* _last_api_call = 0 lies) than any interval
StartTime == VisionRateLimit

NoThread == "-"
Threads == {"Profiler-0", "Profiler-1", "JDProcessor-0", "CVProcessor-0"}
Categories == {"text", "embeddings", "vision"}

\* The client calls a thread of each pool makes while it processes an item
CallsOf(t) ==
    CASE t \in {"Profiler-0", "Profiler-1"} -> {"text"}
      [] t = "JDProcessor-0" -> {"text", "embeddings"}
      [] t = "CVProcessor-0" -> {"vision"}

\* self.llm_processor = LLMProcessor.from_env(), once in each pool
LLMProcessorOf(t) ==
    IF t = "JDProcessor-0" THEN "JDProcessorWorker.llm_processor"
    ELSE "ProfilerWorker.llm_processor"
\* embeddings_client = EmbeddingsClient.from_env(), a local of the call
EmbeddingsClientOf(t) == "embeddings_client of " \o t

Limiters ==
    {LLMProcessorOf(t) : t \in Threads}
        \cup {EmbeddingsClientOf(t) : t \in {"JDProcessor-0"}}

Category(l) ==
    IF \E t \in Threads : l = LLMProcessorOf(t) THEN "text" ELSE "embeddings"
Interval(c) == IF c = "vision" THEN VisionRateLimit ELSE ApiRateLimit

\* One Lock() for every limiter of the process
SharedLock(l) == "ProfilerWorker.llm_processor"
\* self._lock = Lock(): an attribute of the instance
LockOf(l) == l

CallerIdle == [pc |-> "idle", lim |-> NoThread, until |-> 0]

NoCalls ==
    /\ clock = StartTime
    /\ last_api_call = [l \in Limiters |-> 0]
    /\ lim_lock = [l \in Limiters |-> NoThread]
    /\ caller = [t \in Threads |-> CallerIdle]
    /\ sent = [c \in Categories |-> 0]
    /\ calls = [c \in Categories |-> 0]

\* The client calls begun so far: those sent and those in their wait
Begun ==
    calls["text"] + calls["embeddings"] + calls["vision"]
        + Cardinality({t \in Threads : caller[t].pc # "idle"})

limOthers == << pipeline, upload, cvSide, jdSide, is_running, pool, ctor,
                puts, aggVars, stop, class_lock, unfinished >>

\* analyze_cv / analyze_jd: self._wait_for_rate_limit() comes first
AnalyzeCall(t) ==
    /\ caller[t].pc = "idle"
    /\ "text" \in CallsOf(t)
    /\ Begun < MaxCalls
    /\ caller' = [caller EXCEPT ![t] =
                    [pc |-> "acquire", lim |-> LLMProcessorOf(t), until |-> 0]]
    /\ UNCHANGED << clock, last_api_call, lim_lock, sent, calls, limOthers >>

\* EmbeddingsClient.from_env() then generate_embeddings: a new client, with
\* _last_api_call = 0 and a new Lock(), for this one call
EmbeddingsCall(t) ==
    /\ caller[t].pc = "idle"
    /\ "embeddings" \in CallsOf(t)
    /\ Begun < MaxCalls
    /\ last_api_call' = [last_api_call EXCEPT ![EmbeddingsClientOf(t)] = 0]
    /\ lim_lock' = [lim_lock EXCEPT ![LockOf(EmbeddingsClientOf(t))] = NoThread]
    /\ caller' = [caller EXCEPT ![t] =
                    [pc |-> "acquire", lim |-> EmbeddingsClientOf(t),
                     until |-> 0]]
    /\ UNCHANGED << clock, sent, calls, limOthers >>

\* describe_doc_pages: the request is sent without any wait
DescribeDocPages(t) ==
    /\ caller[t].pc = "idle"
    /\ "vision" \in CallsOf(t)
    /\ Begun < MaxCalls
    /\ sent' = [sent EXCEPT !["vision"] = clock]
    /\ calls' = [calls EXCEPT !["vision"] = @ + 1]
    /\ UNCHANGED << clock, last_api_call, lim_lock, caller, limOthers >>

\* What follows the test of now - self._last_api_call < self._api_rate_limit
AfterCheck(t, l) ==
    IF clock - last_api_call[l] < Interval(Category(l))
    THEN [pc |-> "sleep", lim |-> l,
          until |-> clock + (Interval(Category(l)) - (clock - last_api_call[l]))]
    ELSE [pc |-> "record", lim |-> l, until |-> 0]

\* The wait entered without taking the lock
WaitEnterUnlocked(t) ==
    /\ caller[t].pc = "acquire"
    /\ caller' = [caller EXCEPT ![t] = AfterCheck(t, caller[t].lim)]
    /\ UNCHANGED << clock, last_api_call, lim_lock, sent, calls, limOthers >>

\* _wait_for_rate_limit: with self._lock: now = time.time(); if now - ...
WaitEnter(t) ==
    /\ caller[t].pc = "acquire"
    /\ lim_lock[LockOf(caller[t].lim)] = NoThread
    /\ lim_lock' = [lim_lock EXCEPT ![LockOf(caller[t].lim)] = t]
    /\ caller' = [caller EXCEPT ![t] = AfterCheck(t, caller[t].lim)]
    /\ UNCHANGED << clock, last_api_call, sent, calls, limOthers >>

\* time.sleep(self._api_rate_limit - (now - self._last_api_call)) returns
WaitWake(t) ==
    /\ caller[t].pc = "sleep"
    /\ clock >= caller[t].until
    /\ caller' = [caller EXCEPT ![t].pc = "record"]
    /\ UNCHANGED << clock, last_api_call, lim_lock, sent, calls, limOthers >>

\* self._last_api_call = time.time(), the lock is released, and the caller
\* sends its request
WaitReturn(t) ==
    /\ caller[t].pc = "record"
    /\ last_api_call' = [last_api_call EXCEPT ![caller[t].lim] = clock]
    /\ lim_lock' = [l \in Limiters |->
                      IF lim_lock[l] = t THEN NoThread ELSE lim_lock[l]]
    /\ sent' = [sent EXCEPT ![Category(caller[t].lim)] = clock]
    /\ calls' = [calls EXCEPT ![Category(caller[t].lim)] = @ + 1]
    /\ caller' = [caller EXCEPT ![t] = CallerIdle]
    /\ UNCHANGED << clock, limOthers >>

\* A quarter of a second passes
Tick ==
    /\ clock < StartTime + MaxTicks
    /\ clock' = clock + 1
    /\ UNCHANGED << last_api_call, lim_lock, caller, sent, calls, limOthers >>

NextLimiter ==
    \/ \E t \in Threads : AnalyzeCall(t)
    \/ \E t \in Threads : EmbeddingsCall(t)
    \/ \E t \in Threads : DescribeDocPages(t)
    \/ \E t \in Threads : WaitEnter(t)
    \/ \E t \in Threads : WaitWake(t)
    \/ \E t \in Threads : WaitReturn(t)
    \/ Tick

---------------------------------------------------------------------------
\* The Profiler's aggregates over an employment history.

MaxEntries == 2

Date(year, month) == [year |-> year, month |-> month]
\* "populate the month and year with 0" when the date is the present day
Present == Date(0, 0)

Todays == {Date(2024, 7), Date(2024, 10)}

\* Employment records whose end is the present day or no earlier than the start
ValidEmployments ==
    LET StartDates == {Date(y, m) : y \in {2020, 2021}, m \in {1, 2, 10}}
        EndDates == StartDates \cup {Date(2022, 1), Present}
        Before(d, e) == d.year * 12 + d.month <= e.year * 12 + e.month
    IN  {e \in [start_date : StartDates, end_date : EndDates] :
            e.end_date = Present \/ Before(e.start_date, e.end_date)}

RECURSIVE HistoriesOf(_)
HistoriesOf(n) ==
    IF n = 0 THEN {<< >>}
    ELSE LET shorter == HistoriesOf(n - 1)
         IN  shorter \cup {Append(h, e) : h \in {s \in shorter : Len(s) = n - 1},
                                          e \in ValidEmployments}

\* if end_year == 0: end_year = now.year; end_month = now.month
EndDate(employment, now) ==
    IF employment.end_date.year = 0 THEN now ELSE employment.end_date

\* years = end_year - start_year
EntryYears(employment, now) ==
    EndDate(employment, now).year - employment.start_date.year
\* months = end_month - start_month
EntryMonths(employment, now) ==
    EndDate(employment, now).month - employment.start_date.month

\* total_months += (end_year - start_year) * 12 + (end_month - start_month)
RECURSIVE TotalMonths(_, _)
TotalMonths(history, now) ==
    IF history = << >> THEN 0
    ELSE EntryYears(Head(history), now) * 12 + EntryMonths(Head(history), now)
         + TotalMonths(Tail(history), now)

\* total_months // len(employment_history)
FloorDivide(n, d) == n \div d
\* round(n / d) for integers n and d > 0: the quotient of the true division
\* is the double nearest n / d, a tie of n / d is a double, and round() takes
\* a double to the nearest integer, a tie to the even one
PyRound(n, d) ==
    LET q == n \div d
        r == n - q * d
    IN  IF 2 * r < d THEN q
        ELSE IF 2 * r > d THEN q + 1
        ELSE IF q % 2 = 0 THEN q ELSE q + 1

CalculateAverageTenure(history, now) ==
    IF history = << >> THEN 0
    ELSE PyRound(TotalMonths(history, now), Len(history))

\* A double that is a sum of twelfths is a / 12 + d * u, with u = 2^-56 / 3:
\* a the twelfths it stands for and d how far the double is from them.  All
\* the doubles met here are below 64 in magnitude and, unless zero, at least
\* 1 / 12, so they are multiples of 2^-56 = 3 * u.
Double(a, d) == [a |-> a, d |-> d]

\* The exponent of a positive value a / 12 + d * u: the doubles in
\* [2^k, 2^(k+1)) are the multiples of 2^(k-52) = 3 * 2^(k+4) * u
Binade(a, d) ==
    LET AtLeastPow2(k) ==
            LET lhs == IF k < 0 THEN a * 2^(0 - k) ELSE a
                rhs == IF k < 0 THEN 12 ELSE 12 * 2^k
            IN  lhs > rhs \/ (lhs = rhs /\ d >= 0)
    IN  CHOOSE k \in (0 - 4)..5 :
            AtLeastPow2(k) /\ (k = 5 \/ ~AtLeastPow2(k + 1))

\* IEEE 754 round-to-nearest-even of an exact result: the double nearest
\* the value, a tie going to the even mantissa, the same for both signs.
\* For the magnitude, a * 2^54 = Q * g + r * h with g = 3 * h and
\* h = 2^(k+4), and Q is odd exactly when r is.
Nearest(a, d) ==
    IF a = 0 /\ d = 0 THEN Double(0, 0)
    ELSE LET sign == IF a < 0 THEN 0 - 1 ELSE 1
             k == Binade(sign * a, sign * d)
             h == 2^(k + 4)
             g == 3 * h
             r == (sign * a * (IF (50 - k) % 2 = 0 THEN 1 ELSE 2)) % 3
             w == r * h + sign * d
             q0 == w \div g
             rem == w - q0 * g
             n == IF 2 * rem < g THEN q0
                  ELSE IF 2 * rem > g THEN q0 + 1
                  ELSE IF (r + q0) % 2 = 0 THEN q0 ELSE q0 + 1
         IN  Double(a, sign * (n * g - r * h))

\* x + y on doubles
DoubleAdd(x, y) == Nearest(x.a + y.a, x.d + y.d)
\* months / 12
Twelfths(months) == Nearest(months, 0)
\* total_years += years + (months / 12), from total_years; the int years is
\* converted to the double of its value
RECURSIVE TotalYears(_, _, _)
TotalYears(history, now, total_years) ==
    IF history = << >> THEN total_years
    ELSE TotalYears(Tail(history), now,
             DoubleAdd(total_years,
                 DoubleAdd(Double(12 * EntryYears(Head(history), now), 0),
                           Twelfths(EntryMonths(Head(history), now)))))

\* round(x * 2) for the double x: doubling is exact, round() goes to the
\* nearest integer and takes a tie to the even one
RoundDoubled(x) ==
    LET n == x.a \div 6
        rem == x.a - n * 6
    IN  IF rem < 3 THEN n
        ELSE IF rem > 3 THEN n + 1
        ELSE IF x.d > 0 THEN n + 1
        ELSE IF x.d < 0 THEN n
        ELSE IF n % 2 = 0 THEN n ELSE n + 1

\* round(total_years * 2) / 2, given as the number of half years
CalculateYearsExperience(history, now) ==
    RoundDoubled(TotalYears(history, now, Double(0, 0)))

\* shutdown() has not been called
NotStopping == [pc |-> "idle", joined |-> 0]

NoAggregates ==
    /\ stop = NotStopping
    /\ employment_history = << >>
    /\ today = Present
    /\ average_tenure = None
    /\ years_experience = None

aggOthers == << pipeline, upload, cvSide, jdSide, is_running, pool, ctor,
                puts, limVars, stop, class_lock, unfinished >>

\* average_tenure = self._calculate_average_tenure(profile.employment_history)
AverageTenure ==
    /\ average_tenure = None
    /\ average_tenure' = Some(CalculateAverageTenure(employment_history, today))
    /\ UNCHANGED << employment_history, today, years_experience, aggOthers >>

\* years_experience = self._calculate_years_experience(...)
YearsExperience ==
    /\ years_experience = None
    /\ years_experience' =
           Some(CalculateYearsExperience(employment_history, today))
    /\ UNCHANGED << employment_history, today, average_tenure, aggOthers >>

NextAggregates == AverageTenure \/ YearsExperience

---------------------------------------------------------------------------
\* Pool construction: CVProcessorWorker(), JDProcessorWorker(), ProfilerWorker().
\* `pool` holds the class attribute _instance and the instance attributes:
\* initialized (hasattr(self, "initialized")), the Queue objects created so
\* far, the threads started so far and len(self.workers).
MaxPersisted == 3        \* runs the store holds when a pool is constructed

NoPool == [instance |-> FALSE, initialized |-> FALSE, queues |-> 0,
           threads |-> 0, workers |-> 0]
ConstructedPool == [instance |-> TRUE, initialized |-> TRUE, queues |-> 1,
                    threads |-> num_workers, workers |-> num_workers]

\* The threads that call a pool's constructor: the import of the router
\* module for the CV and JD pools, the CV worker threads (ProfilerWorker()
\* in _process_queue) for the Profiler pool
Callers(p) == IF p = "profiler" THEN 1..num_workers ELSE {1}

CtorIdle == [pc |-> "call", pending |-> << >>]

\* The container a pool's recovery scan reads, and the pools that scan
ScannedContainer == IF pipeline = "cv" THEN cv_profiles ELSE role_profiles
HasRecoveryScan(p) == p \in {"cv", "jd"}

ctorRest == << pipeline, uploads, jd_uploads, cv_profiles, role_profiles,
               role_listings, users, cvw, jdw, pfw, submissions, issued,
               upload, fed, apart >>
ctorOthers == << ctorRest, class_lock, unfinished >>

\* __new__: with cls._lock:
CtorNewLock(c) ==
    /\ ctor[c].pc = "call"
    /\ class_lock = Free
    /\ class_lock' = Caller(c)
    /\ ctor' = [ctor EXCEPT ![c].pc = "new"]
    /\ UNCHANGED << cv_queue, jd_queue, profile_queue, is_running, pool, puts,
                    ctorRest, unfinished >>

\* A __new__ that returns without leaving its with block
CtorNewKeepsLock(c) ==
    /\ ctor[c].pc = "new"
    /\ pool' = [pool EXCEPT !.instance = TRUE]
    /\ ctor' = [ctor EXCEPT ![c].pc = "init"]
    /\ UNCHANGED << cv_queue, jd_queue, profile_queue, is_running, puts,
                    ctorOthers >>

\* if cls._instance is None: cls._instance = super().__new__(cls);
\* return cls._instance, which leaves the with block
CtorNew(c) ==
    /\ ctor[c].pc = "new"
    /\ pool' = [pool EXCEPT !.instance = TRUE]
    /\ class_lock' = Free
    /\ ctor' = [ctor EXCEPT ![c].pc = "init"]
    /\ UNCHANGED << cv_queue, jd_queue, profile_queue, is_running, puts,
                    ctorRest, unfinished >>

\* __init__: if not hasattr(self, "initialized"):
CtorInitCheck(c) ==
    /\ ctor[c].pc = "init"
    /\ ctor' = [ctor EXCEPT ![c].pc =
                  IF pool.initialized THEN "done" ELSE "create"]
    /\ UNCHANGED << cv_queue, jd_queue, profile_queue, is_running, pool, puts,
                    ctorOthers >>

\* self.cv_queue = Queue(); self.is_running = True; self.workers = []
CtorCreate(c) ==
    /\ ctor[c].pc = "create"
    /\ pool' = [pool EXCEPT !.queues = @ + 1, !.workers = 0]
    /\ is_running' = [is_running EXCEPT ![pipeline] = TRUE]
    /\ cv_queue' = IF pipeline = "cv" THEN << >> ELSE cv_queue
    /\ jd_queue' = IF pipeline = "jd" THEN << >> ELSE jd_queue
    /\ profile_queue' = IF pipeline = "profiler" THEN << >> ELSE profile_queue
    /\ unfinished' = [unfinished EXCEPT ![pipeline] = 0]
    /\ ctor' = [ctor EXCEPT ![c].pc =
                  IF HasRecoveryScan(pipeline) THEN "scan" ELSE "start"]
    /\ UNCHANGED << puts, ctorRest, class_lock >>

\* pending_cvs = cv_profile_manager.get_pending_cv_profiles()
CtorScan(c) ==
    /\ ctor[c].pc = "scan"
    /\ \E found \in RecoveryScan(ScannedContainer) :
         ctor' = [ctor EXCEPT ![c].pc = "enqueue", ![c].pending = found]
    /\ UNCHANGED << cv_queue, jd_queue, profile_queue, is_running, pool, puts,
                    ctorOthers >>

\* for cv in pending_cvs: self.add_cv_to_queue(cv.id, cv.file_path), up to
\* its `with self._lock:`; the loop ends when no run is left
CtorEnqueueLock(c) ==
    /\ ctor[c].pc = "enqueue"
    /\ IF ctor[c].pending = << >>
       THEN /\ ctor' = [ctor EXCEPT ![c].pc = "start"]
            /\ UNCHANGED class_lock
       ELSE /\ class_lock = Free
            /\ class_lock' = Caller(c)
            /\ ctor' = [ctor EXCEPT ![c].pc = "put"]
    /\ UNCHANGED << cv_queue, jd_queue, profile_queue, is_running, pool, puts,
                    ctorRest, unfinished >>

\* self.cv_queue.put((cv_id, file_path)), and the lock is released
CtorEnqueue(c) ==
    /\ ctor[c].pc = "put"
    /\ LET item == Head(ctor[c].pending) IN
         /\ cv_queue' = IF pipeline = "cv" THEN Append(cv_queue, item)
                        ELSE cv_queue
         /\ jd_queue' = IF pipeline = "jd" THEN Append(jd_queue, item)
                        ELSE jd_queue
         /\ puts' = Append(puts, item)
         /\ ctor' = [ctor EXCEPT ![c].pc = "enqueue", ![c].pending = Tail(@)]
    /\ unfinished' = Put(pipeline)
    /\ class_lock' = Free
    /\ UNCHANGED << profile_queue, is_running, pool, ctorRest >>

\* for i in range(num_workers): ...; self.workers.append(worker); worker.start()
CtorStart(c) ==
    /\ ctor[c].pc = "start"
    /\ pool' = [pool EXCEPT !.threads = @ + num_workers,
                            !.workers = @ + num_workers]
    /\ ctor' = [ctor EXCEPT ![c].pc = "mark"]
    /\ UNCHANGED << cv_queue, jd_queue, profile_queue, is_running, puts,
                    ctorOthers >>

\* self.initialized = True
CtorMark(c) ==
    /\ ctor[c].pc = "mark"
    /\ pool' = [pool EXCEPT !.initialized = TRUE]
    /\ ctor' = [ctor EXCEPT ![c].pc = "done"]
    /\ UNCHANGED << cv_queue, jd_queue, profile_queue, is_running, puts,
                    ctorOthers >>

\* The runs an earlier process may have left: any of the ids, any status
PersistedStores(new_run) ==
    UNION {[S -> {[new_run EXCEPT !.status = st, !.file_path = ext] :
                    st \in RunStatus, ext \in {"pdf", "docx"}}] :
           S \in SUBSET (1..MaxPersisted)}

\* The process before a pool is constructed
InitCtor ==
    /\ pipeline \in Pipelines
    /\ users = [u \in UserIds |->
                  NewUser(IF u = "u2" THEN "recruiter" ELSE "job_seeker")]
    /\ cv_profiles \in (IF pipeline = "cv" THEN PersistedStores(NewCVProfileRun("pdf"))
                        ELSE {EmptyContainer})
    /\ role_profiles \in (IF pipeline = "jd"
                          THEN PersistedStores(NewRoleProfileRun("pdf", "u2"))
                          ELSE {EmptyContainer})
    /\ uploads = EmptyContainer
    /\ jd_uploads = EmptyContainer
    /\ role_listings = << >>
    /\ cv_queue = << >> /\ jd_queue = << >> /\ profile_queue = << >>
    /\ cvw = [w \in Workers |-> CvIdle]
    /\ jdw = [w \in Workers |-> JdIdle]
    /\ pfw = [w \in Workers |-> PfIdle]
    /\ is_running = [p \in Pipelines |-> FALSE]
    /\ submissions = [u \in UserIds |-> 0]
    /\ issued = 0
    /\ upload = None
    /\ fed = 0
    /\ pool = NoPool
    /\ ctor = [c \in Callers(pipeline) |-> CtorIdle]
    /\ puts = << >>
    /\ class_lock = Free
    /\ unfinished = [p \in Pipelines |-> 0]
    /\ NoCalls
    /\ NoAggregates

NextCtor ==
    \/ \E c \in DOMAIN ctor : CtorNewLock(c)
    \/ \E c \in DOMAIN ctor : CtorNew(c)
    \/ \E c \in DOMAIN ctor : CtorInitCheck(c)
    \/ \E c \in DOMAIN ctor : CtorCreate(c)
    \/ \E c \in DOMAIN ctor : CtorScan(c)
    \/ \E c \in DOMAIN ctor : CtorEnqueueLock(c)
    \/ \E c \in DOMAIN ctor : CtorEnqueue(c)
    \/ \E c \in DOMAIN ctor : CtorStart(c)
    \/ \E c \in DOMAIN ctor : CtorMark(c)

SpecCtor == InitCtor /\ [][NextCtor]_vars

---------------------------------------------------------------------------
\* The process after the routers are imported: the users exist, the store
\* holds what an earlier process left in it, the CV and JD pools have been
\* constructed (their queues hold the recovery scan's items) and their
\* threads started.

PersistedFile(limit) == [ext |-> "pdf", pages |-> limit]

\* What an earlier process may have left: nothing, or one run in any status
PersistedCvRuns ==
    {EmptyContainer} \cup
    {[k \in {"u1"} |-> [NewCVProfileRun("pdf") EXCEPT !.status = st]] :
        st \in RunStatus}

PersistedRoleRuns ==
    {EmptyContainer} \cup
    {[k \in {0} |-> [NewRoleProfileRun("pdf", "u2") EXCEPT !.status = st]] :
        st \in RunStatus}

InitProcess ==
    /\ pipeline \in Pipelines
    /\ users = [u \in UserIds |->
                  NewUser(IF u = "u2" THEN "recruiter" ELSE "job_seeker")]
    /\ cv_profiles \in (IF pipeline = "jd" THEN {EmptyContainer}
                        ELSE PersistedCvRuns)
    /\ uploads = [k \in DOMAIN cv_profiles |-> PersistedFile(CV_MAX_PAGES)]
    /\ cv_queue \in RecoveryScan(cv_profiles)
    /\ role_profiles \in (IF pipeline = "jd" THEN PersistedRoleRuns
                          ELSE {EmptyContainer})
    /\ jd_uploads = [k \in DOMAIN role_profiles |-> PersistedFile(JD_MAX_PAGES)]
    /\ jd_queue \in RecoveryScan(role_profiles)
    /\ role_listings = << >>
    /\ profile_queue = << >>
    /\ cvw = [w \in Workers |-> CvIdle]
    /\ jdw = [w \in Workers |-> JdIdle]
    /\ pfw = [w \in Workers |-> PfIdle]
    /\ is_running = [p \in Pipelines |-> TRUE]
    /\ submissions = [u \in UserIds |-> 0]
    /\ issued = 0
    /\ upload = None
    /\ fed = 0
    /\ pool = ConstructedPool
    /\ ctor = [c \in Callers(pipeline) |-> [CtorIdle EXCEPT !.pc = "done"]]
    /\ puts = cv_queue \o jd_queue
    /\ class_lock = Free
    /\ unfinished = [p \in Pipelines |->
                       IF p = "cv" THEN Len(cv_queue)
                       ELSE IF p = "jd" THEN Len(jd_queue) ELSE 0]

Init == InitProcess /\ NoCalls /\ NoAggregates

\* The files tried: every kind in the pipeline an upload is validated in
CvFileKinds == IF pipeline = "cv" THEN FileKinds(CV_MAX_PAGES)
               ELSE {PersistedFile(CV_MAX_PAGES)}

Next ==
    \/ \E u \in UserIds, file \in CvFileKinds : UploadCvSave(u, file)
    \/ UploadCvAddRun
    \/ UploadCvLock
    \/ UploadCvEnqueue
    \/ \E u \in UserIds, file \in FileKinds(JD_MAX_PAGES) : UploadJdSave(u, file)
    \/ UploadJdAddRun
    \/ UploadJdLock
    \/ UploadJdEnqueue
    \/ \E u \in UserIds, a \in {None, Some("scores")} : AddToQueue(u, a)
    \/ \E w \in Workers : CVLoop(w)
    \/ \E w \in Workers : CVGet(w)
    \/ \E w \in Workers : CVValidate(w)
    \/ \E w \in Workers, o \in ServiceOutcomes : CVExtract(w, o)
    \/ \E w \in Workers : CVTouchGet(w)
    \/ \E w \in Workers : CVTouchPut(w)
    \/ \E w \in Workers : CVHandlerGet(w)
    \/ \E w \in Workers : CVHandlerPut(w)
    \/ \E w \in Workers : CVFinally(w)
    \/ \E w \in Workers : JDLoop(w)
    \/ \E w \in Workers : JDGet(w)
    \/ \E w \in Workers : JDLookup(w)
    \/ \E w \in Workers : JDTouch(w)
    \/ \E w \in Workers : JDValidate(w)
    \/ \E w \in Workers, o \in JdServiceOutcomes : JDAnalyze(w, o)
    \/ \E w \in Workers : JDComplete(w)
    \/ \E w \in Workers : JDPromote(w)
    \/ \E w \in Workers : JDDelete(w)
    \/ \E w \in Workers : JDHandlerGet(w)
    \/ \E w \in Workers : JDHandlerPut(w)
    \/ \E w \in Workers : JDFinally(w)
    \/ \E w \in Workers : PFLoop(w)
    \/ \E w \in Workers : PFGet(w)
    \/ \E w \in Workers, o \in ProfilerOutcomes : PFAnalyze(w, o)
    \/ \E w \in Workers : PFWrite(w)
    \/ \E w \in Workers : PFGetUser(w)
    \/ \E w \in Workers : PFGetRun(w)
    \/ \E w \in Workers : PFMerge(w)
    \/ \E w \in Workers : PFMergePut(w)
    \/ \E w \in Workers : PFOnboard(w)
    \/ \E w \in Workers : PFFinally(w)

Spec == Init /\ [][Next]_vars

---------------------------------------------------------------------------
\* The process with shutdown() called on the pool at any moment.
MaxShutdownUploads == 1  \* requests accepted in a behaviour with a shutdown

\* shutdown: self.is_running = False; for worker in self.workers: worker.join()
\* (join waits for the threads and changes nothing)
\* The threads of the pool, as self.workers lists them
ThreadsOf(p) == IF p = "cv" THEN cvw ELSE IF p = "jd" THEN jdw ELSE pfw

\* A shutdown() that joins the threads and leaves the flag as it is
ShutdownKeepsFlag(p) ==
    /\ pipeline = p
    /\ stop.pc = "idle"
    /\ stop' = [stop EXCEPT !.pc = "join"]
    /\ UNCHANGED << pipeline, is_running, pool, ctor, puts, upload, cvSide,
                    jdSide, limVars, aggVars, class_lock, unfinished >>

\* shutdown(): self.is_running = False
Shutdown(p) ==
    /\ pipeline = p
    /\ stop.pc = "idle"
    /\ is_running' = [is_running EXCEPT ![p] = FALSE]
    /\ stop' = [stop EXCEPT !.pc = "join"]
    /\ UNCHANGED << pipeline, pool, ctor, puts, upload, cvSide, jdSide,
                    limVars, aggVars, class_lock, unfinished >>

\* for worker in self.workers: worker.join(), which returns once the thread
\* has ended; shutdown() returns after the last join
ShutdownJoin(p) ==
    /\ pipeline = p
    /\ stop.pc = "join"
    /\ ThreadsOf(p)[stop.joined + 1].pc \in {"exited", "dead"}
    /\ stop' = [pc |-> IF stop.joined + 1 = num_workers THEN "returned"
                       ELSE "join",
                joined |-> stop.joined + 1]
    /\ UNCHANGED << pipeline, is_running, pool, ctor, puts, upload, cvSide,
                    jdSide, limVars, aggVars, class_lock, unfinished >>

NextShutdown ==
    \/ /\ Uploaded < MaxShutdownUploads
       /\ \E u \in UserIds, file \in CvFileKinds : UploadCvSave(u, file)
    \/ /\ Uploaded < MaxShutdownUploads
       /\ \E u \in UserIds, file \in FileKinds(JD_MAX_PAGES) : UploadJdSave(u, file)
    \/ /\ Uploaded < MaxShutdownUploads
       /\ \E u \in UserIds, a \in {None, Some("scores")} : AddToQueue(u, a)
    \/ UploadCvAddRun
    \/ UploadCvLock
    \/ UploadCvEnqueue
    \/ UploadJdAddRun
    \/ UploadJdLock
    \/ UploadJdEnqueue
    \/ \E w \in Workers : CVLoop(w)
    \/ \E w \in Workers : CVGet(w)
    \/ \E w \in Workers : CVValidate(w)
    \/ \E w \in Workers, o \in ServiceOutcomes : CVExtract(w, o)
    \/ \E w \in Workers : CVTouchGet(w)
    \/ \E w \in Workers : CVTouchPut(w)
    \/ \E w \in Workers : CVHandlerGet(w)
    \/ \E w \in Workers : CVHandlerPut(w)
    \/ \E w \in Workers : CVFinally(w)
    \/ \E w \in Workers : JDLoop(w)
    \/ \E w \in Workers : JDGet(w)
    \/ \E w \in Workers : JDLookup(w)
    \/ \E w \in Workers : JDTouch(w)
    \/ \E w \in Workers : JDValidate(w)
    \/ \E w \in Workers, o \in JdServiceOutcomes : JDAnalyze(w, o)
    \/ \E w \in Workers : JDComplete(w)
    \/ \E w \in Workers : JDPromote(w)
    \/ \E w \in Workers : JDDelete(w)
    \/ \E w \in Workers : JDHandlerGet(w)
    \/ \E w \in Workers : JDHandlerPut(w)
    \/ \E w \in Workers : JDFinally(w)
    \/ \E w \in Workers : PFLoop(w)
    \/ \E w \in Workers : PFGet(w)
    \/ \E w \in Workers, o \in ProfilerOutcomes : PFAnalyze(w, o)
    \/ \E w \in Workers : PFWrite(w)
    \/ \E w \in Workers : PFGetUser(w)
    \/ \E w \in Workers : PFGetRun(w)
    \/ \E w \in Workers : PFMerge(w)
    \/ \E w \in Workers : PFMergePut(w)
    \/ \E w \in Workers : PFOnboard(w)
    \/ \E w \in Workers : PFFinally(w)
    \/ \E p \in Pipelines : Shutdown(p)
    \/ \E p \in Pipelines : ShutdownJoin(p)

SpecShutdown == Init /\ [][NextShutdown]_vars

\* A step of the w-th thread of the pool
WorkerStep(w) ==
    \/ CVLoop(w)
    \/ CVGet(w)
    \/ CVValidate(w)
    \/ \E o \in ServiceOutcomes : CVExtract(w, o)
    \/ CVTouchGet(w)
    \/ CVTouchPut(w)
    \/ CVHandlerGet(w)
    \/ CVHandlerPut(w)
    \/ CVFinally(w)
    \/ JDLoop(w)
    \/ JDGet(w)
    \/ JDLookup(w)
    \/ JDTouch(w)
    \/ JDValidate(w)
    \/ \E o \in JdServiceOutcomes : JDAnalyze(w, o)
    \/ JDComplete(w)
    \/ JDPromote(w)
    \/ JDDelete(w)
    \/ JDHandlerGet(w)
    \/ JDHandlerPut(w)
    \/ JDFinally(w)
    \/ PFLoop(w)
    \/ PFGet(w)
    \/ \E o \in ProfilerOutcomes : PFAnalyze(w, o)
    \/ PFWrite(w)
    \/ PFGetUser(w)
    \/ PFGetRun(w)
    \/ PFMerge(w)
    \/ PFMergePut(w)
    \/ PFOnboard(w)
    \/ PFFinally(w)

\* The operating system runs every thread that can take a step, and every
\* call a stage makes returns
SpecShutdownFair ==
    /\ SpecShutdown
    /\ \A w \in Workers : WF_vars(WorkerStep(w))
    /\ WF_vars(\E p \in Pipelines : ShutdownJoin(p))

---------------------------------------------------------------------------
\* The client calls of a running process, with nothing else going on

InitLimiter ==
    /\ InitProcess
    /\ pipeline = "profiler"
    /\ cv_profiles = EmptyContainer
    /\ NoCalls
    /\ NoAggregates

SpecLimiter == InitLimiter /\ [][NextLimiter]_vars

---------------------------------------------------------------------------
\* The aggregates applied to the employment histories of up to MaxEntries
\* records

InitAggregates ==
    /\ InitProcess
    /\ pipeline = "profiler"
    /\ cv_profiles = EmptyContainer
    /\ NoCalls
    /\ stop = NotStopping
    /\ employment_history \in HistoriesOf(MaxEntries)
    /\ today \in Todays
    /\ average_tenure = None
    /\ years_experience = None

SpecAggregates == InitAggregates /\ [][NextAggregates]_vars

---------------------------------------------------------------------------
\* Properties

Terminal == {COMPLETED, FAILED}

\* The ids whose stored run goes from a terminal status to PENDING in a step
BackToPending(old, new) ==
    {id \in DOMAIN old \cap DOMAIN new :
        old[id].status \in Terminal /\ new[id].status = PENDING}

\* The step is upload's add_cv_profile / add_role_profile for id, and no
\* worker thread moves in it
NewSubmissionOf(id) ==
    /\ ~IsNone(upload) /\ The(upload).pc = "add_run" /\ The(upload).id = id
    /\ cvw' = cvw /\ jdw' = jdw /\ pfw' = pfw

\* C1: once a run's status is COMPLETED or FAILED, no write of a pipeline
\* stage (the CV touch, the Listing touch, the Profiler write, a failure
\* handler) sets it back to PENDING; only the run created by a new
\* submission of the id does.
C1_NoStageWriteBackToPending ==
    [][ /\ \A id \in BackToPending(cv_profiles, cv_profiles') : NewSubmissionOf(id)
        /\ \A id \in BackToPending(role_profiles, role_profiles') :
              NewSubmissionOf(id) ]_vars

\* Two items of the same id are written by the Profiler with no submission
\* in between: the later write lands on a COMPLETED run
C1_Witness ==
    /\ pipeline = "profiler"
    /\ submissions["u1"] = 0
    /\ \A w \in Workers : pfw[w].pc = "get_user" /\ pfw[w].id = "u1"
    /\ cv_profiles["u1"].status = COMPLETED

\* The ids whose upload has created its run
UploadCreating(id) ==
    ~IsNone(upload) /\ The(upload).pc = "add_run" /\ The(upload).id = id
SubmittedCvIds == {u \in UserIds : submissions[u] > 0 /\ ~UploadCreating(u)}
SubmittedJdIds == {r \in 1..issued : ~UploadCreating(r)}

HasRun(container, id) ==
    id \in DOMAIN container /\ container[id].status \in RunStatus
HasListing(id) == \E i \in DOMAIN role_listings : role_listings[i].run_id = id

\* C2 as stated: every submitted item has a run record under its id at all
\* times, with a status of PENDING, COMPLETED or FAILED.
C2_AlwaysARun ==
    /\ \A u \in SubmittedCvIds : HasRun(cv_profiles, u)
    /\ \A r \in SubmittedJdIds : HasRun(role_profiles, r)

\* C2: every submitted resume has a run record under its id at all times;
\* every submitted listing has a run record under its id until the Listing
\* stage has persisted the Listing built from it, and only then may the run
\* be gone.  The status is PENDING, COMPLETED or FAILED.
C2_RunUntilPromoted ==
    /\ \A u \in SubmittedCvIds : HasRun(cv_profiles, u)
    /\ \A r \in SubmittedJdIds : HasRun(role_profiles, r) \/ HasListing(r)

\* A listing has been persisted and its run deleted while another
\* submitted listing still has its run
C2_Witness ==
    /\ \E r \in SubmittedJdIds : HasListing(r) /\ r \notin DOMAIN role_profiles
    /\ \E r \in SubmittedJdIds : HasRun(role_profiles, r)

ValidationErrors == {"CVFormatError", "CVLengthError"}

\* C3 as stated: when the CV stage has handled an item that failed the
\* format or the page-count check, the run reads FAILED and its comment is
\* the error's message.
C3_FailedWithMessage ==
    \A w \in Workers :
        (cvw[w].pc = "finally" /\ cvw[w].exc \in ValidationErrors) =>
            /\ cvw[w].id \in DOMAIN cv_profiles
            /\ cv_profiles[cvw[w].id].status = FAILED
            /\ cv_profiles[cvw[w].id].status_comment = cvw[w].msg

\* C4: a CV worker whose item failed the format or the page-count check
\* puts nothing on the Profiler queue, in the step that raises and in every
\* step it takes for that item afterwards.
C4_FailedNeverHandedOff ==
    [][ \A w \in Workers :
          (cvw'[w] # cvw[w] /\
           (cvw[w].exc \in ValidationErrors \/ cvw'[w].exc \in ValidationErrors))
             => profile_queue' = profile_queue ]_vars

\* A worker is through with an over-long resume and the Profiler queue is empty
C4_Witness ==
    \E w \in Workers :
        /\ cvw[w].pc = "finally" /\ cvw[w].exc = "CVLengthError"
        /\ cvw[w].msg = LengthMessage(CV_MAX_PAGES + 1, CV_MAX_PAGES)
        /\ profile_queue = << >>

\* A JD worker at the end of an item that raised nothing
JdSucceeded(w) ==
    jdw[w].pc = "finally" /\ jdw[w].exc = NoExc /\ jdw[w].escaped = NoExc

\* C5: when the Listing stage finishes an item without an error, a Listing
\* built from the item's run is stored and no run is stored under the id.
C5_PromotedAndDeleted ==
    \A w \in Workers :
        JdSucceeded(w) =>
            HasListing(jdw[w].id) /\ jdw[w].id \notin DOMAIN role_profiles

C5_Witness ==
    \E w \in Workers : JdSucceeded(w) /\ jdw[w].id \in 1..issued

JdValidationErrors == {"JDFormatError", "JDLengthError"}

\* C6: when the Listing stage has handled an item that failed the format
\* or the page-count check, the run is still stored, reads FAILED with the
\* error's message as comment, and no Listing was built from it.
C6_FailedRunKept ==
    \A w \in Workers :
        (jdw[w].pc = "finally" /\ jdw[w].exc \in JdValidationErrors) =>
            /\ jdw[w].id \in DOMAIN role_profiles
            /\ role_profiles[jdw[w].id].status = FAILED
            /\ role_profiles[jdw[w].id].status_comment = jdw[w].msg
            /\ ~HasListing(jdw[w].id)

C6_Witness ==
    \E w \in Workers :
        /\ jdw[w].pc = "finally" /\ jdw[w].exc = "JDLengthError"
        /\ role_profiles[jdw[w].id].status_comment =
              LengthMessage(JD_MAX_PAGES + 1, JD_MAX_PAGES)

Count(seq, x) == Cardinality({i \in DOMAIN seq : seq[i] = x})
AllConstructed == \A c \in DOMAIN ctor : ctor[c].pc = "done"

\* C7: when the constructor of the CV or the JD pool has returned, it has put
\* on the queue exactly one (id, file path) item for every run the store
\* holds as PENDING, and none for a run that reads COMPLETED or FAILED.
C7_RecoveryEnqueuesPending ==
    (HasRecoveryScan(pipeline) /\ AllConstructed) =>
        /\ \A id \in DOMAIN ScannedContainer :
              Count(puts, [id |-> id, ext |-> ScannedContainer[id].file_path])
                 = IF ScannedContainer[id].status = PENDING THEN 1 ELSE 0
        /\ Len(puts) = Cardinality({id \in DOMAIN ScannedContainer :
                                       ScannedContainer[id].status = PENDING})

\* The pool is constructed over a store with two PENDING runs or more and a
\* run that is not PENDING
C7_Witness ==
    /\ HasRecoveryScan(pipeline) /\ AllConstructed
    /\ Len(puts) >= 2
    /\ \E id \in DOMAIN ScannedContainer : ScannedContainer[id].status \in Terminal

\* Classes raised by document extraction, the vision call and the LLM call
ServiceErrors == {"Exception", "LLMInferenceError"}

MovesWith(old, new) == new # old /\ (old.exc \in ServiceErrors \/ new.exc \in ServiceErrors)

\* C8: when an extraction, vision or LLM call raises in a stage, the worker
\* writes no run (in the CV and the Listing stage the run still reads
\* PENDING), builds no Listing, passes the item to no queue and puts it back
\* on none, in the step that raises and in every step for that item after.
C8_ServiceErrorLeavesPending ==
    [][ \A w \in Workers :
          /\ MovesWith(cvw[w], cvw'[w]) =>
                /\ UNCHANGED << cv_profiles, cv_queue, profile_queue >>
                /\ cv_profiles[cvw[w].id].status = PENDING
          /\ MovesWith(jdw[w], jdw'[w]) =>
                /\ UNCHANGED << role_profiles, role_listings, jd_queue >>
                /\ role_profiles[jdw[w].id].status = PENDING
          /\ MovesWith(pfw[w], pfw'[w]) =>
                UNCHANGED << cv_profiles, users, profile_queue >> ]_vars

C8_Witness ==
    \E w \in Workers :
        /\ jdw[w].pc = "finally" /\ jdw[w].exc = "LLMInferenceError"
        /\ role_profiles[jdw[w].id].status = PENDING
        /\ jd_queue = << >>

\* C9: no worker thread of any pool is ended by an exception, whether a
\* stage step raised it or the stage's own error handler did.
C9_NoWorkerDies ==
    \A w \in Workers :
        cvw[w].pc # "dead" /\ jdw[w].pc # "dead" /\ pfw[w].pc # "dead"

\* The CV stage's `except CVError` clause has itself raised, and the worker
\* that took the previous item is back at the head of its loop
C9_Witness ==
    \E w, v \in Workers :
        /\ cvw[w].pc = "finally" /\ cvw[w].escaped = "TypeError"
        /\ v # w /\ cvw[v].pc \in {"loop", "get"}

\* C10 as stated: however the constructor calls interleave, one queue object
\* is created and exactly num_workers threads are started.
C10_InitialisedOnce ==
    /\ pool.queues <= 1
    /\ pool.threads <= num_workers
    /\ AllConstructed => pool.queues = 1 /\ pool.threads = num_workers

\* A thread leaves its loop in this step
Exits(old, new) == new.pc = "exited" /\ old.pc # "exited"

\* The step follows a dequeue attempt that obtained nothing
AfterFailedDequeue(rec, queue) == rec.pc = "get" /\ queue = << >>

\* C11 as stated: a worker thread exits only when a dequeue attempt has
\* just failed to obtain an item.
C11_ExitsAfterFailedDequeue ==
    [][ \A w \in Workers :
          /\ Exits(cvw[w], cvw'[w]) => AfterFailedDequeue(cvw[w], cv_queue)
          /\ Exits(jdw[w], jdw'[w]) => AfterFailedDequeue(jdw[w], jd_queue)
          /\ Exits(pfw[w], pfw'[w]) => AfterFailedDequeue(pfw[w], profile_queue)
      ]_vars

\* The thread is between items: at the test of the loop, or in a dequeue
\* that obtained nothing
BetweenItems(rec, queue) == rec.pc = "loop" \/ AfterFailedDequeue(rec, queue)

\* C11: a worker thread exits only once the running flag is false, and only
\* between items: at the test of its loop, reached after the item it was
\* processing is finished, or after a dequeue attempt that obtained nothing.
\* It never stops in the middle of an item.
C11_ExitsBetweenItems ==
    [][ \A w \in Workers :
          /\ Exits(cvw[w], cvw'[w]) =>
                ~is_running["cv"] /\ BetweenItems(cvw[w], cv_queue)
          /\ Exits(jdw[w], jdw'[w]) =>
                ~is_running["jd"] /\ BetweenItems(jdw[w], jd_queue)
          /\ Exits(pfw[w], pfw'[w]) =>
                ~is_running["profiler"] /\ BetweenItems(pfw[w], profile_queue)
      ]_vars

\* After shutdown one thread has left its loop while the other is still
\* finishing the item it holds
C11_Witness ==
    /\ ~is_running["cv"]
    /\ \E w, v \in Workers :
          /\ cvw[w].pc = "exited"
          /\ cvw[v].pc = "finally" /\ cvw[v].id \in UserIds

\* A thread's dequeue obtains an item in this step
Took(old, new) == old.pc = "get" /\ new.pc \notin {"get", "exited"}

\* The queue changes only by an enqueue at its tail, in a step no worker
\* takes, or by its head going to one thread that was in its dequeue; and a
\* thread obtains an item only so
HandedOnce(old, new, recs, recs2) ==
    /\ \A w \in Workers :
          Took(recs[w], recs2[w]) =>
             /\ old # << >> /\ new = Tail(old)
             /\ recs2[w].id = Head(old).id
             /\ \A v \in Workers \ {w} : recs2[v] = recs[v]
    /\ new # old =>
          \/ /\ Len(new) = Len(old) + 1
             /\ SubSeq(new, 1, Len(old)) = old
             /\ recs2 = recs
          \/ /\ old # << >> /\ new = Tail(old)
             /\ \E w \in Workers : Took(recs[w], recs2[w])

\* C12: every item put on a stage queue stays on it until one worker thread's
\* dequeue takes it from the head; the step gives it to that thread alone,
\* and no other step removes an item, for all three stage queues.
C12_HandedToExactlyOne ==
    [][ /\ HandedOnce(cv_queue, cv_queue', cvw, cvw')
        /\ HandedOnce(jd_queue, jd_queue', jdw, jdw')
        /\ HandedOnce(profile_queue, profile_queue', pfw, pfw') ]_vars

\* Two items were put on the Profiler queue and each thread holds one of them
C12_Witness ==
    /\ fed = 2 /\ profile_queue = << >>
    /\ pfw[1].pc = "analyze" /\ pfw[2].pc = "analyze"
    /\ pfw[1].assessment # pfw[2].assessment

\* A CV worker at the end of an item whose checks passed, whose extraction,
\* rendering and vision call returned and whose run was read for the touch
CvServicesReturned(w) ==
    /\ cvw[w].pc = "finally"
    /\ ~IsNone(cvw[w].run)
    /\ cvw[w].exc \notin CVErrors

\* C13 as stated: when the checks pass and the services return, the CV stage
\* writes the run back, still PENDING, and puts one (item id, paragraphs,
\* creativity assessment) tuple on the Profiler queue.
C13_TouchedAndHandedOff ==
    \A w \in Workers :
        CvServicesReturned(w) =>
            /\ cvw[w].exc = NoExc
            /\ cv_profiles[cvw[w].id].status = PENDING
            /\ Count(profile_queue, ProfileItem(cvw[w].id, cvw[w].assessment)) >= 1

\* The run the Profiler is to persist for the item a thread holds
ProfilerRun(rec, stored) ==
    [status |-> COMPLETED, status_comment |-> NoComment,
     file_path |-> stored.file_path,
     profile |-> The(rec.profile).profile,
     scores |-> rec.assessment,
     aggregates |-> IF The(rec.profile).employment_history
                    THEN Some("aggregates") ELSE None]

\* A Profiler thread whose LLM call returned a profile takes its write step
\* while the run is stored
WritesProfile(w) ==
    /\ pfw[w].pc = "write" /\ pfw'[w] # pfw[w]
    /\ ~IsNone(pfw[w].profile)
    /\ pfw[w].id \in DOMAIN cv_profiles

WritesFlag(w) == pfw[w].pc = "onboard" /\ pfw'[w] # pfw[w] /\ users' # users

\* C15 as stated: the stored onboarded flag of a user never goes from true
\* back to false, and a Profiler merge writes the flag only while the stored
\* flag is still false.
C15_OnboardedOnce ==
    [][ /\ \A u \in UserIds : users[u].is_onboarded => users'[u].is_onboarded
        /\ \A w \in Workers : WritesFlag(w) => ~users[pfw[w].id].is_onboarded
      ]_vars

\* Thread t returns from its wait in this step
Returns(t) == caller[t].pc = "record" /\ caller'[t].pc = "idle"

\* C16: for one limiter instance, the time a return of the wait records is
\* at least the limiter's interval after the time the previous return on
\* that instance recorded, whatever the interleaving of its callers.
C16_ReturnsAnIntervalApart ==
    [][\A t \in Threads :
          Returns(t) =>
              LET l == caller[t].lim
              IN  \/ last_api_call[l] = 0
                  \/ clock - last_api_call[l] >= Interval(Category(l))]_vars

\* One thread sleeps inside the wait of a limiter that has recorded a call,
\* while another thread stands at the lock of the same limiter
C16_Witness ==
    \E t, u \in Threads :
        /\ t # u
        /\ caller[t].pc = "sleep"
        /\ caller[u].pc = "acquire"
        /\ caller[u].lim = caller[t].lim
        /\ last_api_call[caller[t].lim] # 0
        /\ lim_lock[LockOf(caller[t].lim)] = t

\* The limiter instances thread t is at in this step
ActsOn(t) == {caller[t].lim, caller'[t].lim} \ {NoThread}

\* C17: limiter instances are independent.  A step of a thread in the wait
\* of one instance neither reads nor changes the last-call time or the mutex
\* of any other instance, and a thread whose own instance's mutex is free
\* enters its wait whoever holds the mutexes of the other instances.
C17_InstancesIndependent ==
    /\ [](\A t \in Threads :
            (caller[t].pc = "acquire" /\ lim_lock[caller[t].lim] = NoThread)
                => ENABLED WaitEnter(t))
    /\ [][\A t \in Threads :
            caller'[t] # caller[t] =>
                \A l \in Limiters \ ActsOn(t) :
                    /\ last_api_call'[l] = last_api_call[l]
                    /\ lim_lock'[l] = lim_lock[l]]_vars

\* A Profiler thread sleeps in the wait of its pool's LLM processor, holding
\* that mutex, while a JD thread is inside the wait of the other processor
C17_Witness ==
    /\ caller["Profiler-0"].pc = "sleep"
    /\ lim_lock["ProfilerWorker.llm_processor"] = "Profiler-0"
    /\ caller["JDProcessor-0"].pc \in {"sleep", "record"}
    /\ lim_lock["JDProcessorWorker.llm_processor"] = "JDProcessor-0"

\* A request of category c is sent in this step
Sends(c) == calls'[c] = calls[c] + 1

\* C18: the requests of one client category are sent at least the
\* category's interval apart, whichever threads and stages send them.
C18_CategoryAnIntervalApart ==
    [][\A c \in Categories :
          Sends(c) => (sent[c] = 0 \/ clock - sent[c] >= Interval(c))]_vars

\* |x|
Abs(x) == IF x < 0 THEN 0 - x ELSE x

\* C19: the average tenure of a non-empty history is the sum of its entries'
\* months divided by the number of entries and rounded to the nearest whole
\* month, a quotient ending in .5 going to the even month; the single entry
\* 2020-01 to 2022-01 gives 24.
C19_AverageTenureRounded ==
    (average_tenure # None /\ employment_history # << >>) =>
        LET total == TotalMonths(employment_history, today)
            n == Len(employment_history)
            r == The(average_tenure)
        IN  /\ 2 * Abs(total - r * n) <= n
            /\ 2 * Abs(total - r * n) = n => r % 2 = 0
            /\ employment_history =
                   << [start_date |-> Date(2020, 1), end_date |-> Date(2022, 1)] >>
               => r = 24

\* The average of two entries whose months add up to an odd number is
\* computed, one of them running to the present day
C19_Witness ==
    /\ average_tenure # None
    /\ Len(employment_history) = 2
    /\ TotalMonths(employment_history, today) % 2 = 1
    /\ \E i \in 1..2 : employment_history[i].end_date = Present

\* C20: the years of experience are the sum of the entries' years and
\* twelfths of months rounded to the nearest half year, a sum at exactly
\* x.25 going to x and one at exactly x.75 to x + 1, however many entries it
\* is the sum of; the single entry 2020-01 to the present gives 4.5 in
\* 2024-07.
C20_YearsRoundedToHalf ==
    years_experience # None =>
        LET twelfths == TotalMonths(employment_history, today)
            whole == twelfths \div 6
            rest == twelfths - whole * 6
            halves == The(years_experience)
        IN  /\ rest < 3 => halves = whole
            /\ rest > 3 => halves = whole + 1
            /\ rest = 3 => (halves % 2 = 0 /\ halves \in {whole, whole + 1})
            /\ (/\ employment_history =
                      << [start_date |-> Date(2020, 1), end_date |-> Present] >>
                /\ today = Date(2024, 7))
               => halves = 9

\* C21: once shutdown() has been called, if every call a stage makes
\* returns and every thread is run, every worker thread of the pool exits
\* and shutdown() returns, whatever is left in the queue.
C21_ShutdownReturns ==
    (stop.pc = "join") ~>
        (stop.pc = "returned"
            /\ \A w \in Workers : ThreadsOf(pipeline)[w].pc = "exited")

\* shutdown() has returned with an item still in the queue
C21_Witness ==
    /\ stop.pc = "returned"
    /\ pipeline = "cv"
    /\ cv_queue # << >>

\* C22: a request to the vision service is sent by a thread returning from
\* the wait of the vision client's limiter, and so no sooner than that
\* limiter's interval after the previous one.
C22_VisionCallsWait ==
    [][Sends("vision") =>
          /\ \E t \in Threads : "vision" \in CallsOf(t) /\ Returns(t)
          /\ (sent["vision"] = 0 \/ clock - sent["vision"] >= VisionRateLimit)
      ]_vars

\* The upload handler puts its item on the work queue in this step
Enqueues == ~IsNone(upload) /\ The(upload).pc = "put" /\ upload' = None

\* The container an upload's run record is written to
RunsOfUpload == IF pipeline = "jd" THEN role_profiles ELSE cv_profiles

RunDeleted(id) == id \in DOMAIN role_profiles /\ id \notin DOMAIN role_profiles'

\* C24: the Listing stage deletes a run only once the Listing built from it
\* is stored, so a failure to store the Listing leaves the run where it is;
\* and an item whose run the stage has marked COMPLETED always has its run
\* or its Listing in the store.
C24_DeletedAfterListing ==
    /\ [][\A id \in DOMAIN role_profiles : RunDeleted(id) => HasListing(id)]_vars
    /\ [](\A w \in Workers :
            (/\ jdw[w].pc \in {"promote", "delete", "finally"}
             /\ ~IsNone(jdw[w].run)
             /\ The(jdw[w].run).status = COMPLETED)
            => (jdw[w].id \in DOMAIN role_profiles \/ HasListing(jdw[w].id)))

\* The store has refused a Listing: the thread is at the end of the item,
\* the run is still stored as COMPLETED and there is no Listing
C24_Witness ==
    \E w \in Workers :
        /\ jdw[w].pc = "finally"
        /\ jdw[w].exc = "CosmosHttpResponseError"
        /\ jdw[w].id \in DOMAIN role_profiles
        /\ role_profiles[jdw[w].id].status = COMPLETED
        /\ ~HasListing(jdw[w].id)

\* The thread's page-count check is made in this step, on a file of a
\* supported type that is where the item says; it fails with the class cls
\* exactly when the file has more pages than limit
LengthChecked(old, new, at, folder, cls, limit) ==
    (/\ old.pc = at /\ new # old
     /\ SupportedFileType(old.ext)
     /\ old.id \in DOMAIN folder /\ folder[old.id].ext = old.ext)
    => /\ new.exc = cls <=> folder[old.id].pages > limit
       /\ new.exc # cls => new.exc = NoExc

\* C25 as stated: both stages fail an item exactly when it has more pages
\* than the stage's limit, and the Listing stage's limit is the smaller.
C25_SmallerLimit ==
    /\ [][\A w \in Workers :
            /\ LengthChecked(cvw[w], cvw'[w], "process", uploads,
                             "CVLengthError", CV_MAX_PAGES)
            /\ LengthChecked(jdw[w], jdw'[w], "validate", jd_uploads,
                             "JDLengthError", JD_MAX_PAGES)]_vars
    /\ [](JD_MAX_PAGES < CV_MAX_PAGES)

\* C25: both stages fail an item exactly when it has more pages than the
\* stage's limit, a page count equal to the limit passing; the Listing
\* stage checks against its own limit, and that limit is the larger.
C25_OwnLimit ==
    /\ [][\A w \in Workers :
            /\ LengthChecked(cvw[w], cvw'[w], "process", uploads,
                             "CVLengthError", CV_MAX_PAGES)
            /\ LengthChecked(jdw[w], jdw'[w], "validate", jd_uploads,
                             "JDLengthError", JD_MAX_PAGES)]_vars
    /\ [](JD_MAX_PAGES > CV_MAX_PAGES)

\* A listing with exactly JD_MAX_PAGES pages, more than a resume may have,
\* has passed the Listing stage's check
C25_Witness ==
    \E w \in Workers :
        /\ jdw[w].pc = "analyze"
        /\ jdw[w].id \in DOMAIN jd_uploads
        /\ jd_uploads[jdw[w].id].pages = JD_MAX_PAGES
        /\ jd_uploads[jdw[w].id].pages > CV_MAX_PAGES

\* The stored run of id reads COMPLETED
StoredCompleted(container, id) ==
    id \in DOMAIN container /\ container[id].status = COMPLETED

\* C26: whenever a Profiler thread writes the merged user, and whenever a
\* Listing thread appends a Listing, the stored run of that id reads
\* COMPLETED at that moment.
C26_CompletedWhenMerged ==
    [][\A w \in Workers :
         /\ (pfw[w].pc = "merge_put" /\ pfw'[w].pc = "onboard")
              => StoredCompleted(cv_profiles, pfw[w].id)
         /\ (jdw[w].pc = "promote" /\ jdw'[w].pc = "delete")
              => StoredCompleted(role_profiles, jdw[w].id)]_vars

\* The thread holds an item it took from the queue and has not finished
Holding(rec) == rec.pc \notin {"loop", "get", "exited", "dead"}

\* C27: no two threads of the resume pool hold items of the same id, and so
\* work on the same scratch page directory, at once
C27_OneThreadPerId ==
    \A v, w \in Workers :
        (v # w /\ Holding(cvw[v]) /\ Holding(cvw[w])) => cvw[v].id # cvw[w].id

\* The thread holds an item for which the vision call (resume pool), the
\* analyze_jd call (Listing pool) or the analyze_cv call (Profiler pool)
\* returned None, or which reached the Profiler without an assessment
RefusedCv(rec) ==
    rec.pc \in {"touch_get", "touch_put", "finally"} /\ IsNone(rec.assessment)
RefusedJd(rec) ==
    /\ IsNone(rec.analysis)
    /\ \/ rec.pc = "complete"
       \/ rec.pc = "finally" /\ rec.exc = "AttributeError" /\ ~IsNone(rec.run)
RefusedPf(rec) ==
    rec.pc \in {"write", "finally"}
    /\ (IsNone(rec.profile) \/ IsNone(rec.assessment))

\* C28: a thread holding a refused item writes neither the run nor a
\* Profile nor a Listing, and goes from the write it attempts straight to the
\* finally clause; the run's status is left as it was, PENDING.
C28_RefusalLeavesPending ==
    [][\A w \in Workers :
         /\ (RefusedCv(cvw[w]) /\ cvw'[w] # cvw[w])
              => /\ cv_profiles' = cv_profiles /\ users' = users
                 /\ cvw[w].pc = "touch_put" => cvw'[w].pc = "finally"
         /\ (RefusedJd(jdw[w]) /\ jdw'[w] # jdw[w])
              => /\ role_profiles' = role_profiles
                 /\ role_listings' = role_listings
                 /\ jdw[w].pc = "complete" => jdw'[w].pc = "finally"
                 /\ jdw[w].id \in DOMAIN role_profiles
                      => role_profiles[jdw[w].id].status = PENDING
         /\ (RefusedPf(pfw[w]) /\ pfw'[w] # pfw[w])
              => /\ cv_profiles' = cv_profiles /\ users' = users
                 /\ pfw[w].pc = "write" => pfw'[w].pc = "finally"]_vars

\* A Listing thread has left the try block after a refusal, the run stored
\* and PENDING, and no Listing made for it
C28_Witness ==
    \E w \in Workers :
        /\ jdw[w].pc = "finally" /\ jdw[w].exc = "AttributeError"
        /\ IsNone(jdw[w].analysis) /\ ~IsNone(jdw[w].run)
        /\ jdw[w].id \in DOMAIN role_profiles
        /\ role_profiles[jdw[w].id].status = PENDING
        /\ \A i \in DOMAIN role_listings : role_listings[i].run_id # jdw[w].id

\* The thread is at a `with cls._lock:` / `with self._lock:` it has yet to
\* enter, and the thread is inside such a block
RequestsLock(t) ==
    \/ \E c \in DOMAIN ctor :
         /\ t = Caller(c)
         /\ \/ ctor[c].pc = "call"
            \/ ctor[c].pc = "enqueue" /\ ctor[c].pending # << >>
    \/ t = Handler /\ ~IsNone(upload) /\ The(upload).pc = "enqueue"
InsideWith(t) ==
    \/ \E c \in DOMAIN ctor : t = Caller(c) /\ ctor[c].pc \in {"new", "put"}
    \/ t = Handler /\ ~IsNone(upload) /\ The(upload).pc = "put"

\* C29: the class-level lock is never requested by the thread that holds
\* it, and whoever holds it is inside a with block of __new__ or of the
\* enqueue method, which it leaves without waiting for anything: neither the
\* recovery scan's enqueues nor concurrent constructor calls or uploads can
\* wait for the lock for ever.
C29_LockNeverReentered ==
    /\ ~RequestsLock(class_lock)
    /\ class_lock # Free => InsideWith(class_lock)
    /\ class_lock # Free =>
         \/ \E c \in DOMAIN ctor : ENABLED (CtorNew(c) \/ CtorEnqueue(c))
         \/ ENABLED (UploadCvEnqueue \/ UploadJdEnqueue)

\* The recovery scan is putting a run on the queue inside the constructor,
\* holding the lock __new__ held before
C29_Witness ==
    \E c \in DOMAIN ctor :
        /\ ctor[c].pc = "put" /\ class_lock = Caller(c)
        /\ pool.instance /\ ~pool.initialized

\* The threads of a pool that hold an item, and the pool's queue
HoldingIn(p) == Cardinality({w \in Workers : Holding(ThreadsOf(p)[w])})
QueueOf(p) == IF p = "cv" THEN cv_queue
              ELSE IF p = "jd" THEN jd_queue ELSE profile_queue

\* C30: a thread gives up the item it holds only in a step that calls
\* task_done, which lowers the queue's unfinished-task count by exactly one;
\* so the count is always the number of items queued plus the number held
\* by threads, and zero once the queue is drained.
C30_TaskDoneOncePerItem ==
    /\ [](\A p \in Pipelines : unfinished[p] = Len(QueueOf(p)) + HoldingIn(p))
    /\ [][\A p \in Pipelines, w \in Workers :
            (Holding(ThreadsOf(p)[w]) /\ ~Holding(ThreadsOf(p)'[w]))
              => unfinished'[p] = unfinished[p] - 1]_vars

\* The Listing pool has drained its queue, the uploaded item having failed
\* validation, and no task is unfinished
C30_Witness ==
    /\ pipeline = "jd" /\ issued >= 1
    /\ issued \in DOMAIN role_profiles
    /\ role_profiles[issued].status = FAILED
    /\ jd_queue = << >> /\ HoldingIn("jd") = 0
    /\ unfinished["jd"] = 0

====
